---- MODULE Spec2Model ----
(***************************************************************************)
(* A model of the HeartOO beat-detection and HRV pipeline                  *)
(* (src/heartoo): the adaptive-threshold peak detector, RR-interval        *)
(* derivation and artifact rejection, the measure stages, the              *)
(* AnalysisResult accumulator, the HeartRateSignal cache, Signal slicing,   *)
(* the constructors' validation and the pipeline orchestration behind      *)
(* process / process_segmentwise / process_rr, together with the order    *)
(* of the measure stages, concurrent invocations of one pipeline, the      *)
(* windows of the segmented pipeline and runs into a reused result.        *)
(*                                                                         *)
(* Numbers.  Samples are integers and sample rates are integers that       *)
(* divide 1000, so every RR-interval (peak gap / sample_rate * 1000) is an *)
(* integer number of milliseconds.  Means, ratios and standard deviations  *)
(* are kept exact: a quotient n/d is the tagged value <<"rat", n', d'>> in *)
(* lowest terms, a root sqrt(n/d) is <<"sqrt", n', d'>>, and numpy's nan   *)
(* is <<"nan">>.  Comparisons of quotients are done by cross               *)
(* multiplication; floating-point rounding is not modelled.                *)
(*                                                                         *)
(* Sample indices (peak positions) are 0-based as in the source; TLA+      *)
(* sequences are 1-based, so sample i of data is data[i + 1].              *)
(***************************************************************************)
EXTENDS Integers, Sequences, FiniteSets, TLC

\* ------------------------------------------------------------------------
\* Bounds of the model
\* ------------------------------------------------------------------------

\* longest signal (in samples) the detector specification draws
DetMaxLen == 6

\* most gaps between pulses in a signal the pipeline specification draws
MaxGaps == 4

\* longest rr_list process_rr is called with
MaxRrLen == 4

\* longest peak list assigned to HeartRateSignal.peaks
MaxPeaks == 3

\* most calls made on one AnalysisResult
MaxCalls == 4

\* largest band integral (vlf, lf, hf) a spectral estimate yields
MaxPower == 1

\* most runs of one pipeline on one signal
MaxRuns == 2

\* most gaps between pulses in a signal a pipeline is run on repeatedly
MaxRerunGaps == 3

\* ------------------------------------------------------------------------
\* Program constants
\* ------------------------------------------------------------------------

\* AdaptiveThresholdPeakDetector.__init__ defaults
DefaultMinBpm == 40

DefaultMaxBpm == 180

\* widened BPM range of the retry in _fit_peaks
WideMinBpm == 30

WideMaxBpm == 200

\* default threshold percentage of the fallback in _fit_peaks
DefaultMaPerc == 20

\* windowsize default 0.75 s = WindowNum / WindowDen
WindowNum == 3

WindowDen == 4

\* ------------------------------------------------------------------------
\* Generic helpers (Python / numpy built-ins)
\* ------------------------------------------------------------------------

Abs(x) == IF x < 0 THEN -x ELSE x

Min2(a, b) == IF a <= b THEN a ELSE b

Max2(a, b) == IF a >= b THEN a ELSE b

RECURSIVE Gcd(_, _)
Gcd(a, b) == IF b = 0 THEN Abs(a) ELSE Gcd(b, a % b)

RECURSIVE Sum(_)
Sum(s) == IF Len(s) = 0 THEN 0 ELSE Head(s) + Sum(Tail(s))

RECURSIVE SumSq(_)
SumSq(s) == IF Len(s) = 0 THEN 0 ELSE Head(s) * Head(s) + SumSq(Tail(s))

\* np.diff
Diff(s) == [i \in 1..(IF Len(s) = 0 THEN 0 ELSE Len(s) - 1) |-> s[i + 1] - s[i]]

\* numpy's nan
NaN == <<"nan">>

\* the exact quotient n / d (d # 0) in lowest terms with a positive denominator
Rat(n, d) ==
    LET g == Gcd(n, d)
        s == IF d < 0 THEN -1 ELSE 1
    IN  <<"rat", (s * n) \div g, (s * d) \div g>>

\* the exact root sqrt(n / d) (n >= 0, d > 0)
Sqrt(n, d) == LET g == Gcd(n, d) IN <<"sqrt", n \div g, d \div g>>

IsNaN(v) == v[1] = "nan"

\* Optional values (Python's None)
None == [isNone |-> TRUE, val |-> <<>>]

Some(x) == [isNone |-> FALSE, val |-> x]

\* dict[key] = value
Put(d, k, v) == [x \in (DOMAIN d) \cup {k} |-> IF x = k THEN v ELSE d[x]]

\* dict.update(other)
Update(d, o) ==
    [x \in (DOMAIN d) \cup (DOMAIN o) |-> IF x \in DOMAIN o THEN o[x] ELSE d[x]]

EmptyDict == [x \in {} |-> 0]

\* ------------------------------------------------------------------------
\* AdaptiveThresholdPeakDetector: rolling mean and threshold detection
\* ------------------------------------------------------------------------

\* int(windowsize * sample_rate)
WindowSamples(sample_rate) == (WindowNum * sample_rate) \div WindowDen

\* np.pad(data, half_window, mode='edge')[j], j 0-based
Padded(data, half_window, j) ==
    LET k == j - half_window
    IN  data[(IF k < 0 THEN 0 ELSE IF k > Len(data) - 1 THEN Len(data) - 1 ELSE k) + 1]

RECURSIVE WindowSum(_, _, _, _)
WindowSum(data, half_window, from, n) ==
    IF n = 0 THEN 0
    ELSE Padded(data, half_window, from) + WindowSum(data, half_window, from + 1, n - 1)

\* _calculate_rolling_mean: rolling_mean[i] = sums[i + 1] / window; the mean of
\* an empty slice (window = 0) is nan for every i
CalculateRollingMean(data, sample_rate) ==
    LET window == WindowSamples(sample_rate)
        half_window == window \div 2
    IN  [window |-> window,
         sums |-> [i \in 1..Len(data) |-> WindowSum(data, half_window, i - 1, window)]]

\* data[i] > threshold[i], threshold = rol_mean + np.mean(rol_mean / 100) * ma_perc
\* (cross-multiplied by 100 * len * window; any comparison with nan is False)
AboveThreshold(data, rol_mean, ma_perc, i) ==
    /\ rol_mean.window > 0
    /\ 100 * Len(data) * rol_mean.window * data[i + 1]
         > 100 * Len(data) * rol_mean.sums[i + 1] + ma_perc * Sum(rol_mean.sums)

RECURSIVE WhereAbove(_, _, _, _)
\* np.where(data > threshold)[0] from sample i on
WhereAbove(data, rol_mean, ma_perc, i) ==
    IF i >= Len(data) THEN <<>>
    ELSE (IF AboveThreshold(data, rol_mean, ma_perc, i) THEN <<i>> ELSE <<>>)
         \o WhereAbove(data, rol_mean, ma_perc, i + 1)

RECURSIVE WhereGap(_, _)
\* np.where(np.diff(peaksx) > 1)[0] from (0-based) position j on
WhereGap(peaksx, j) ==
    IF j + 2 > Len(peaksx) THEN <<>>
    ELSE (IF peaksx[j + 2] - peaksx[j + 1] > 1 THEN <<j>> ELSE <<>>)
         \o WhereGap(peaksx, j + 1)

\* the edges of the runs: concatenate([0], where(diff > 1), [len(peaksx)])
PeakEdges(peaksx) == <<0>> \o WhereGap(peaksx, 0) \o <<Len(peaksx)>>

RECURSIVE ArgMax(_, _, _, _)
\* np.argmax of data over segment[from..]: the first position of the maximum
ArgMax(data, segment, from, best) ==
    IF from > Len(segment) THEN best
    ELSE ArgMax(data, segment, from + 1,
                IF data[segment[from] + 1] > data[segment[best] + 1] THEN from ELSE best)

RECURSIVE SegmentPeaksOfArgMax(_, _, _, _)
\* the loop with peaklist.append(max_idx): the position inside the segment
\* instead of the sample index segment[max_idx]
SegmentPeaksOfArgMax(data, peaksx, peakedges, i) ==
    IF i + 1 > Len(peakedges) THEN <<>>
    ELSE LET segment == SubSeq(peaksx, peakedges[i] + 1, peakedges[i + 1])
         IN  (IF Len(segment) > 0
              THEN <<ArgMax(data, segment, 1, 1) - 1>>
              ELSE <<>>)
             \o SegmentPeaksOfArgMax(data, peaksx, peakedges, i + 1)

RECURSIVE SegmentPeaks(_, _, _, _)
\* the loop over the segments: the sample index of each segment's maximum
SegmentPeaks(data, peaksx, peakedges, i) ==
    IF i + 1 > Len(peakedges) THEN <<>>
    ELSE LET segment == SubSeq(peaksx, peakedges[i] + 1, peakedges[i + 1])
         IN  (IF Len(segment) > 0
              THEN <<segment[ArgMax(data, segment, 1, 1)]>>
              ELSE <<>>)
             \o SegmentPeaks(data, peaksx, peakedges, i + 1)

\* _detect_with_threshold
DetectWithThreshold(data, rol_mean, ma_perc) ==
    LET peaksx == WhereAbove(data, rol_mean, ma_perc, 0)
    IN  SegmentPeaks(data, peaksx, PeakEdges(peaksx), 1)

\* ------------------------------------------------------------------------
\* AdaptiveThresholdPeakDetector._fit_peaks
\* ------------------------------------------------------------------------

\* ma_perc_list
MaPercList == <<5, 10, 15, 20, 25, 30, 40, 50, 60, 70, 80, 90, 100>>

\* bpm = (len(peaks) / (len(data) / sample_rate)) * 60 and
\* self.min_bpm <= bpm <= self.max_bpm, multiplied through by len(data)
BpmInRange(det, data, sample_rate, peaks) ==
    /\ det.min_bpm * Len(data) <= Len(peaks) * sample_rate * 60
    /\ Len(peaks) * sample_rate * 60 <= det.max_bpm * Len(data)

\* the variance of np.diff(peaks) as the pair <<numerator, denominator>>;
\* rrsd = np.std(np.diff(peaks) / sample_rate * 1000) is its root times
\* 1000 / sample_rate, a positive factor common to all candidates of one call
RrVariance(peaks, sample_rate) ==
    LET d == Diff(peaks)
        n == Len(d)
    IN  <<n * SumSq(d) - Sum(d) * Sum(d), n * n>>

\* rrsd < best_rrsd (best_rrsd starts at float('inf'))
RrsdLess(v, best) ==
    \/ best.inf
    \/ v[1] * best.rrvar[2] < best.rrvar[1] * v[2]

\* the state of the search before the first candidate
NoBest == [inf |-> TRUE, rrvar |-> <<0, 1>>, ma |-> None, peaks |-> <<>>]

RECURSIVE FitLoop(_, _, _, _, _, _)
\* one pass "for ma_perc in ma_perc_list" from position i on
FitLoop(det, data, rol_mean, sample_rate, i, best) ==
    IF i > Len(MaPercList) THEN best
    ELSE LET ma_perc == MaPercList[i]
             peaks == DetectWithThreshold(data, rol_mean, ma_perc)
             next ==
                 IF Len(peaks) < 2 THEN best
                 ELSE IF BpmInRange(det, data, sample_rate, peaks)
                         /\ RrsdLess(RrVariance(peaks, sample_rate), best)
                      THEN [inf |-> FALSE,
                            rrvar |-> RrVariance(peaks, sample_rate),
                            ma |-> Some(ma_perc),
                            peaks |-> peaks]
                      ELSE best
         IN  FitLoop(det, data, rol_mean, sample_rate, i + 1, next)

\* self.min_bpm = 30; self.max_bpm = 200
Widen(det) == [det EXCEPT !.min_bpm = WideMinBpm, !.max_bpm = WideMaxBpm]

\* the second pass of _fit_peaks and the default percentage after it; det is
\* the detector as the pass finds it
FitSecondPass(det, data, rol_mean, sample_rate, best) ==
    LET again == FitLoop(det, data, rol_mean, sample_rate, 1, best)
    IN  IF again.ma.isNone
        THEN [again EXCEPT !.ma = Some(DefaultMaPerc),
                           !.peaks = DetectWithThreshold(data, rol_mean, DefaultMaPerc)]
        ELSE again

\* the retry with the configured range kept: the second pass repeats the
\* first and finds what it found
FitRetryKeepingRange(det, data, rol_mean, sample_rate, best) ==
    FitSecondPass(det, data, rol_mean, sample_rate, best)

\* the retry of _fit_peaks inside try/finally: the detector's own range is
\* overwritten with 30..200 for the second pass
FitRetry(det, data, rol_mean, sample_rate, best) ==
    FitSecondPass(Widen(det), data, rol_mean, sample_rate, best)

\* the final check of _fit_peaks: "if not best_peaks" the default percentage
FitFinal(data, rol_mean, best) ==
    IF Len(best.peaks) = 0
    THEN [best EXCEPT !.ma = Some(DefaultMaPerc),
                      !.peaks = DetectWithThreshold(data, rol_mean, DefaultMaPerc)]
    ELSE best

\* _fit_peaks without the finally clause: after a retry the detector keeps
\* the widened range
FitPeaksKeepingWideRange(det, data, rol_mean, sample_rate) ==
    LET first == FitLoop(det, data, rol_mean, sample_rate, 1, NoBest)
        second == IF first.ma.isNone
                  THEN FitRetry(det, data, rol_mean, sample_rate, first)
                  ELSE first
        final == FitFinal(data, rol_mean, second)
    IN  [best_ma |-> final.ma.val,
         best_peaks |-> final.peaks,
         path |-> IF ~first.ma.isNone THEN "configured"
                  ELSE IF ~second.inf THEN "widened" ELSE "default",
         det |-> IF first.ma.isNone
                 THEN [det EXCEPT !.min_bpm = WideMinBpm, !.max_bpm = WideMaxBpm]
                 ELSE det]

\* _fit_peaks: the chosen percentage, its peaks, the pass that chose them and
\* the detector as the call leaves it (finally restores min_bpm / max_bpm)
FitPeaks(det, data, rol_mean, sample_rate) ==
    LET first == FitLoop(det, data, rol_mean, sample_rate, 1, NoBest)
        second == IF first.ma.isNone
                  THEN FitRetry(det, data, rol_mean, sample_rate, first)
                  ELSE first
        final == FitFinal(data, rol_mean, second)
    IN  [best_ma |-> final.ma.val,
         best_peaks |-> final.peaks,
         path |-> IF ~first.ma.isNone THEN "configured"
                  ELSE IF ~second.inf THEN "widened" ELSE "default",
         det |-> det]

\* detect_peaks
DetectPeaks(det, data, sample_rate) ==
    FitPeaks(det, data, CalculateRollingMean(data, sample_rate), sample_rate)

\* ------------------------------------------------------------------------
\* HeartRateSignal (core/signal.py)
\* ------------------------------------------------------------------------

\* HeartRateSignal.__init__ (sample_rate > 0)
NewSignal(data, sample_rate) ==
    [data |-> data, sample_rate |-> sample_rate,
     peaks |-> None, rr_intervals |-> None, rr_indices |-> None]

\* the setter without the reset of the derived properties
SetPeaksKeepingDerived(sig, value) ==
    IF ~value.isNone
    THEN [sig EXCEPT !.peaks = value]
    ELSE sig

\* the peaks setter; value is an optional sequence and None is ignored
SetPeaks(sig, value) ==
    IF ~value.isNone
    THEN [sig EXCEPT !.peaks = value, !.rr_intervals = None, !.rr_indices = None]
    ELSE sig

\* (np.diff(peaks) / sample_rate) * 1000.0
RrOfPeaks(peaks, sample_rate) ==
    [i \in 1..(Len(peaks) - 1) |-> (peaks[i + 1] - peaks[i]) * (1000 \div sample_rate)]

\* [(peaks[i], peaks[i+1]) for i in range(len(peaks) - 1)]
IndicesOfPeaks(peaks) ==
    [i \in 1..(Len(peaks) - 1) |-> <<peaks[i], peaks[i + 1]>>]

\* _calculate_rr_intervals
CalculateRrIntervals(sig) ==
    IF sig.peaks.isNone \/ Len(sig.peaks.val) < 2
    THEN [sig EXCEPT !.rr_intervals = Some(<<>>), !.rr_indices = Some(<<>>)]
    ELSE [sig EXCEPT !.rr_intervals = Some(RrOfPeaks(sig.peaks.val, sig.sample_rate)),
                     !.rr_indices = Some(IndicesOfPeaks(sig.peaks.val))]

\* the rr_intervals property: the signal after the read (the cache may be
\* filled by it); the value read is its rr_intervals field
ReadRrIntervals(sig) ==
    IF sig.rr_intervals.isNone /\ ~sig.peaks.isNone
    THEN CalculateRrIntervals(sig)
    ELSE sig

\* the rr_indices property, likewise
ReadRrIndices(sig) ==
    IF sig.rr_indices.isNone /\ ~sig.peaks.isNone
    THEN CalculateRrIntervals(sig)
    ELSE sig

\* ------------------------------------------------------------------------
\* AnalysisResult (core/result.py)
\* ------------------------------------------------------------------------

\* AnalysisResult.__init__
NewResult == [measures |-> EmptyDict, working_data |-> EmptyDict, segments |-> <<>>]

\* AnalysisResult.set_measure with the other measures dropped:
\* self._measures = {key: value}
SetMeasureClearing(res, key, value) == [res EXCEPT !.measures = Put(EmptyDict, key, value)]

SetMeasure(res, key, value) == [res EXCEPT !.measures = Put(res.measures, key, value)]

SetWorkingData(res, key, value) ==
    [res EXCEPT !.working_data = Put(res.working_data, key, value)]

\* get_working_data(key, default)
GetWorkingData(res, key, default) ==
    IF key \in DOMAIN res.working_data THEN res.working_data[key] ELSE default

AddSegment(res, segment) == [res EXCEPT !.segments = Append(res.segments, segment)]

\* merge_from with the receiver's dictionaries replaced by other's instead of
\* updated from them
MergeFromReplacing(res, other) ==
    [measures |-> other.measures,
     working_data |-> other.working_data,
     segments |-> IF Len(other.segments) > 0
                  THEN res.segments \o other.segments
                  ELSE res.segments]

\* merge_from
MergeFrom(res, other) ==
    [measures |-> Update(res.measures, other.measures),
     working_data |-> Update(res.working_data, other.working_data),
     segments |-> IF Len(other.segments) > 0
                  THEN res.segments \o other.segments
                  ELSE res.segments]

\* ------------------------------------------------------------------------
\* PeakDetector.process and AdaptiveThresholdPeakDetector.process
\* ------------------------------------------------------------------------

\* [signal.data[p] for p in peaks]
ValuesAt(data, peaks) == [i \in 1..Len(peaks) |-> data[peaks[i] + 1]]

\* PeakDetector.process after detect_peaks has returned: set signal.peaks,
\* write peaklist, ybeat, RR_list and RR_indices
PeakDetectorStore(sig, res, fit) ==
    LET peaks == fit.best_peaks
        sig1 == ReadRrIndices(ReadRrIntervals(SetPeaks(sig, Some(peaks))))
        res1 == SetWorkingData(SetWorkingData(res, "peaklist", peaks),
                               "ybeat", ValuesAt(sig.data, peaks))
        res2 == IF ~sig1.rr_intervals.isNone
                THEN SetWorkingData(SetWorkingData(res1, "RR_list", sig1.rr_intervals.val),
                                    "RR_indices", sig1.rr_indices.val)
                ELSE res1
    IN  [det |-> fit.det, signal |-> sig1, result |-> res2]

\* PeakDetector.process: detect on the filtered signal when there is one,
\* then store what was found
PeakDetectorProcess(det, sig, res) ==
    PeakDetectorStore(sig, res,
        DetectPeaks(det, GetWorkingData(res, "filtered_signal", sig.data),
                    sig.sample_rate))

\* rr_list[i] <= lower_threshold or rr_list[i] >= upper_threshold, where the
\* band around mean_rr is 300 when 0.3 * mean_rr <= 300 and 0.3 * mean_rr
\* otherwise (multiplied through by len(rr_list), resp. 10 * len(rr_list))
RrOutside(rr_list, i) ==
    LET n == Len(rr_list)
        total == Sum(rr_list)
    IN  IF 3 * total <= 3000 * n
        THEN \/ n * rr_list[i] <= total - 300 * n
             \/ n * rr_list[i] >= total + 300 * n
        ELSE \/ 10 * n * rr_list[i] <= 7 * total
             \/ 10 * n * rr_list[i] >= 13 * total

RECURSIVE RemIdx(_, _)
\* rem_idx = np.where(...)[0] + 1, from (1-based) position i of rr_list on
RemIdx(rr_list, i) ==
    IF i > Len(rr_list) THEN <<>>
    ELSE (IF RrOutside(rr_list, i) THEN <<i>> ELSE <<>>) \o RemIdx(rr_list, i + 1)

\* x in rem_idx
InSeq(x, s) == \E k \in 1..Len(s) : s[k] = x

\* binary_peaklist: ones, with 0 at every index of rem_idx below its length
BinaryPeaklist(npeaks, rem_idx) ==
    [b \in 1..npeaks |-> IF InSeq(b - 1, rem_idx) THEN 0 ELSE 1]

RECURSIVE Pick(_, _, _)
\* [values[i] for i in rem_idx if i < len(values)]
Pick(values, rem_idx, k) ==
    IF k > Len(rem_idx) THEN <<>>
    ELSE (IF rem_idx[k] < Len(values) THEN <<values[rem_idx[k] + 1]>> ELSE <<>>)
         \o Pick(values, rem_idx, k + 1)

\* the test with only the interval's first beat looked at:
\* i < len(binary_peaklist) - 1 and binary_peaklist[i] == 1
FirstValid(binary_peaklist, i) ==
    /\ i < Len(binary_peaklist) - 1
    /\ binary_peaklist[i + 1] = 1

\* i < len(binary_peaklist) - 1 and binary_peaklist[i] + binary_peaklist[i+1] == 2
\* (i 0-based)
BothValid(binary_peaklist, i) ==
    /\ i < Len(binary_peaklist) - 1
    /\ binary_peaklist[i + 1] + binary_peaklist[i + 2] = 2

RECURSIVE RrListCor(_, _, _)
\* rr_list_cor, from (0-based) interval i on
RrListCor(rr_list, binary_peaklist, i) ==
    IF i >= Len(rr_list) THEN <<>>
    ELSE (IF BothValid(binary_peaklist, i) THEN <<rr_list[i + 1]>> ELSE <<>>)
         \o RrListCor(rr_list, binary_peaklist, i + 1)

\* rr_mask
RrMask(rr_list, binary_peaklist) ==
    [i \in 1..Len(rr_list) |-> IF BothValid(binary_peaklist, i - 1) THEN 0 ELSE 1]

\* rr_diff: abs(rr_list_cor[i] - rr_list_cor[i + 1])
AbsDiff(s) == [i \in 1..(IF Len(s) = 0 THEN 0 ELSE Len(s) - 1) |-> Abs(s[i] - s[i + 1])]

Squares(s) == [i \in 1..Len(s) |-> s[i] * s[i]]

\* _update_rr_intervals
UpdateRrIntervals(res) ==
    LET rr_list == GetWorkingData(res, "RR_list", <<>>)
        binary_peaklist == GetWorkingData(res, "binary_peaklist", <<>>)
        rr_list_cor == RrListCor(rr_list, binary_peaklist, 0)
        rr_diff == AbsDiff(rr_list_cor)
    IN  IF Len(rr_list) = 0 \/ Len(binary_peaklist) = 0
        THEN res
        ELSE SetWorkingData(
               SetWorkingData(
                 SetWorkingData(
                   SetWorkingData(res, "RR_masklist", RrMask(rr_list, binary_peaklist)),
                   "RR_list_cor", rr_list_cor),
                 "RR_diff", rr_diff),
               "RR_sqdiff", Squares(rr_diff))

\* AdaptiveThresholdPeakDetector.process after super().process has returned
AdaptiveCorrect(base) ==
    LET rr_list == base.result.working_data["RR_list"]
        peaks == base.result.working_data["peaklist"]
        ybeat == base.result.working_data["ybeat"]
        rem_idx == RemIdx(rr_list, 1)
        res1 == SetWorkingData(
                  SetWorkingData(
                    SetWorkingData(base.result, "removed_beats", Pick(peaks, rem_idx, 1)),
                    "removed_beats_y", Pick(ybeat, rem_idx, 1)),
                  "binary_peaklist", BinaryPeaklist(Len(peaks), rem_idx))
    IN  IF Len(base.signal.peaks.val) > 1
        THEN [base EXCEPT !.result = UpdateRrIntervals(res1)]
        ELSE base

\* AdaptiveThresholdPeakDetector.process: super().process, then the
\* correction of the RR-intervals
AdaptiveProcess(det, sig, res) ==
    AdaptiveCorrect(PeakDetectorProcess(det, sig, res))

\* ------------------------------------------------------------------------
\* The measure stages (processing/analyzers.py, processing/processor.py)
\* ------------------------------------------------------------------------

\* n * sum(x^2) - sum(x)^2: the variance of s times len(s)^2
VarNum(s) == Len(s) * SumSq(s) - Sum(s) * Sum(s)

RECURSIVE CountAbove(_, _)
\* len(rr_diff[np.where(rr_diff > limit)])
CountAbove(s, limit) ==
    IF Len(s) = 0 THEN 0
    ELSE (IF Head(s) > limit THEN 1 ELSE 0) + CountAbove(Tail(s), limit)

\* sum(|len(s) * s[i] - sum(s)|): the mean absolute deviation times len(s)^2
MadNum(s) == Sum([i \in 1..Len(s) |-> Abs(Len(s) * s[i] - Sum(s))])

\* TimeDomainAnalyzer.calculate_measures
TimeDomainMeasures(rr) ==
    LET n == Len(rr)
        total == Sum(rr)
        d == AbsDiff(rr)
        m == Len(d)
        basic == [bpm |-> IF n = 0 THEN NaN
                          ELSE IF total = 0 THEN <<"inf">> ELSE Rat(60000 * n, total),
                  ibi |-> IF n = 0 THEN NaN ELSE Rat(total, n),
                  sdnn |-> IF n = 0 THEN NaN ELSE Sqrt(VarNum(rr), n * n)]
        more == [sdsd |-> Sqrt(VarNum(d), m * m),
                 rmssd |-> Sqrt(SumSq(d), m),
                 pnn20 |-> IF m = 0 THEN NaN ELSE Rat(CountAbove(d, 20), m),
                 pnn50 |-> IF m = 0 THEN NaN ELSE Rat(CountAbove(d, 50), m),
                 hr_mad |-> Rat(MadNum(rr), n * n)]
    IN  [raised |-> FALSE,
         measures |-> IF n > 1 THEN Update(basic, more) ELSE basic]

\* NonlinearAnalyzer.calculate_measures
NonlinearMeasures(rr) ==
    LET m == Len(rr) - 1
        one == [i \in 1..m |-> rr[i] - rr[i + 1]]
        two == [i \in 1..m |-> rr[i] + rr[i + 1]]
        a == VarNum(one)
        b == VarNum(two)
    IN  [raised |-> FALSE,
         measures |->
            IF Len(rr) < 2
            THEN Put([sd1 |-> NaN, sd2 |-> NaN, s |-> NaN], "sd1/sd2", NaN)
            ELSE Put([sd1 |-> Sqrt(a, 2 * m * m),
                      sd2 |-> Sqrt(b, 2 * m * m),
                      s |-> <<"pi_times", Sqrt(a, 2 * m * m), Sqrt(b, 2 * m * m)>>],
                     "sd1/sd2", IF b > 0 THEN Sqrt(a, b) ELSE NaN)]

\* the ten frequency measures, all nan
FreqNaN ==
    Put([vlf |-> NaN, lf |-> NaN, hf |-> NaN, p_total |-> NaN,
         vlf_perc |-> NaN, lf_perc |-> NaN, hf_perc |-> NaN,
         lf_nu |-> NaN, hf_nu |-> NaN],
        "lf/hf", NaN)

\* the spectral estimators calculate_measures knows
FreqMethods == {"fft", "periodogram", "welch"}

\* the derived measures with lf/hf guarded by lf > 0 instead of hf > 0
FreqFromPowersTestingLf(vlf, lf, hf) ==
    LET p_total == vlf + lf + hf
    IN  Put([vlf |-> Rat(vlf, 1), lf |-> Rat(lf, 1), hf |-> Rat(hf, 1),
             p_total |-> Rat(p_total, 1),
             vlf_perc |-> IF p_total > 0 THEN Rat(100 * vlf, p_total) ELSE NaN,
             lf_perc |-> IF p_total > 0 THEN Rat(100 * lf, p_total) ELSE NaN,
             hf_perc |-> IF p_total > 0 THEN Rat(100 * hf, p_total) ELSE NaN,
             lf_nu |-> IF lf + hf > 0 THEN Rat(100 * lf, lf + hf) ELSE NaN,
             hf_nu |-> IF lf + hf > 0 THEN Rat(100 * hf, lf + hf) ELSE NaN],
            "lf/hf", IF lf > 0 THEN Rat(lf, hf) ELSE NaN)

\* the measures derived from the band integrals vlf, lf, hf (np.trapz of the
\* PSD over each band)
FreqFromPowers(vlf, lf, hf) ==
    LET p_total == vlf + lf + hf
    IN  Put([vlf |-> Rat(vlf, 1), lf |-> Rat(lf, 1), hf |-> Rat(hf, 1),
             p_total |-> Rat(p_total, 1),
             vlf_perc |-> IF p_total > 0 THEN Rat(100 * vlf, p_total) ELSE NaN,
             lf_perc |-> IF p_total > 0 THEN Rat(100 * lf, p_total) ELSE NaN,
             hf_perc |-> IF p_total > 0 THEN Rat(100 * hf, p_total) ELSE NaN,
             lf_nu |-> IF lf + hf > 0 THEN Rat(100 * lf, lf + hf) ELSE NaN,
             hf_nu |-> IF lf + hf > 0 THEN Rat(100 * hf, lf + hf) ELSE NaN],
            "lf/hf", IF hf > 0 THEN Rat(lf, hf) ELSE NaN)

\* FrequencyDomainAnalyzer.calculate_measures.  The spline and the PSD
\* estimate are scipy's; their outcome enters as env.powers = <<vlf, lf, hf>>
FrequencyMeasures(analyzer, rr, env) ==
    IF Len(rr) <= 1
    THEN [raised |-> FALSE, measures |-> FreqNaN]
    ELSE IF Len(rr) > 3
         THEN IF analyzer.method \in FreqMethods
              THEN [raised |-> FALSE,
                    measures |-> FreqFromPowers(env.powers[1], env.powers[2], env.powers[3])]
              ELSE [raised |-> TRUE, measures |-> EmptyDict]
         ELSE [raised |-> FALSE, measures |-> FreqNaN]

\* the abstract method calculate_measures, dispatched on the analyzer's class
CalculateMeasures(analyzer, rr, env) ==
    IF analyzer.kind = "time" THEN TimeDomainMeasures(rr)
    ELSE IF analyzer.kind = "nonlinear" THEN NonlinearMeasures(rr)
    ELSE FrequencyMeasures(analyzer, rr, env)

\* result.get_working_data('RR_list_cor') without the default: None when the
\* result holds no corrected list
RrInputWithoutDefault(sig, res) ==
    IF "RR_list_cor" \in DOMAIN res.working_data
    THEN Some(res.working_data["RR_list_cor"])
    ELSE None

\* result.get_working_data('RR_list_cor', signal.rr_intervals), as an optional
\* sequence; sig is the signal after the property read
RrInput(sig, res) ==
    IF "RR_list_cor" \in DOMAIN res.working_data
    THEN Some(res.working_data["RR_list_cor"])
    ELSE sig.rr_intervals

\* HRVAnalyzer.process
HRVAnalyzerProcess(analyzer, sig, res, env) ==
    LET sig1 == ReadRrIntervals(sig)
        rr == RrInput(sig1, res)
        calc == CalculateMeasures(analyzer, rr.val, env)
    IN  IF rr.isNone \/ Len(rr.val) < 2
        THEN [signal |-> sig1, result |-> res, raised |-> FALSE]
        ELSE IF calc.raised
             THEN [signal |-> sig1, result |-> res, raised |-> TRUE]
             ELSE [signal |-> sig1,
                   result |-> [res EXCEPT !.measures = Update(res.measures, calc.measures)],
                   raised |-> FALSE]

\* BreathingAnalyzer.process without the except clause: a failure inside the
\* try block leaves the call as an exception
BreathingProcessUncaught(analyzer, sig, res, env) ==
    LET sig1 == ReadRrIntervals(sig)
        rr == RrInput(sig1, res)
        failed == \/ Len(rr.val) < 4
                  \/ analyzer.method \notin FreqMethods
                  \/ env.breathing = "fail"
    IN  IF rr.isNone \/ Len(rr.val) < 3
        THEN [signal |-> sig1, result |-> SetMeasure(res, "breathingrate", NaN),
              raised |-> FALSE]
        ELSE IF failed
             THEN [signal |-> sig1, result |-> res, raised |-> TRUE]
             ELSE [signal |-> sig1,
                   result |->
                      SetWorkingData(
                        SetWorkingData(
                          SetWorkingData(
                            SetMeasure(res, "breathingrate", Rat(env.rate, 1)),
                            "breathing_signal", <<"breathing", rr.val>>),
                          "breathing_psd", <<"psd", rr.val>>),
                        "breathing_frq", <<"frq", rr.val>>),
                   raised |-> FALSE]

\* BreathingAnalyzer.process.  Inside the try block the cubic spline needs more
\* than 3 points, an unknown method raises, and scipy's filter and PSD may
\* fail (env.breathing = "fail"); every failure is caught
BreathingProcess(analyzer, sig, res, env) ==
    LET sig1 == ReadRrIntervals(sig)
        rr == RrInput(sig1, res)
        failed == \/ Len(rr.val) < 4
                  \/ analyzer.method \notin FreqMethods
                  \/ env.breathing = "fail"
    IN  IF rr.isNone \/ Len(rr.val) < 3
        THEN [signal |-> sig1, result |-> SetMeasure(res, "breathingrate", NaN),
              raised |-> FALSE]
        ELSE IF failed
             THEN [signal |-> sig1, result |-> SetMeasure(res, "breathingrate", NaN),
                   raised |-> FALSE]
             ELSE [signal |-> sig1,
                   result |->
                      SetWorkingData(
                        SetWorkingData(
                          SetWorkingData(
                            SetMeasure(res, "breathingrate", Rat(env.rate, 1)),
                            "breathing_signal", <<"breathing", rr.val>>),
                          "breathing_psd", <<"psd", rr.val>>),
                        "breathing_frq", <<"frq", rr.val>>),
                   raised |-> FALSE]

\* ------------------------------------------------------------------------
\* HampelFilter and FilterProcessor.process (processing/filters.py)
\* ------------------------------------------------------------------------

\* HampelFilter.__init__(window_size, threshold, filtertype='hampel'): the
\* base class keeps window_size as cutoff
NewHampelFilter(window_size, threshold) ==
    [kind |-> "hampel", cutoff |-> window_size, filtertype |-> "hampel",
     threshold |-> threshold]

\* HampelFilter.apply_filter evaluates self.threshold * mad for sample 0 of a
\* non-empty signal; a str threshold times a float raises TypeError
HampelRaises(filter, data) == Len(data) > 0 /\ filter.threshold[1] = "str"

\* filtered_signal = self.apply_filter(signal) of a filter the builder made;
\* result.set_working_data('filtered_signal', filtered_signal.data)
FilterProcess(filter, sig, res) ==
    IF HampelRaises(filter, sig.data)
    THEN [signal |-> sig, result |-> res, raised |-> TRUE]
    ELSE [signal |-> sig,
          result |-> SetWorkingData(res, "filtered_signal", sig.data),
          raised |-> FALSE]

\* ------------------------------------------------------------------------
\* PipelineBuilder (processing/builder.py) and the entry points
\* (compatibility.py)
\* ------------------------------------------------------------------------

\* with_filter('hampel', cutoff, filtertype): HampelFilter(cutoff, filtertype),
\* so cutoff binds to window_size and filtertype to threshold
WithFilter(cutoff, filtertype) == <<NewHampelFilter(cutoff, <<"str", filtertype>>)>>

WithPeakDetector == <<[kind |-> "peak"]>>

WithTimeDomainAnalyzer == <<[kind |-> "time"]>>

WithNonlinearAnalyzer == <<[kind |-> "nonlinear"]>>

WithFrequencyDomainAnalyzer(method) == <<[kind |-> "frequency", method |-> method]>>

WithBreathingAnalyzer(method) == <<[kind |-> "breathing", method |-> method]>>

\* the processors process() adds, in the order it adds them
ProcessProcessors(a) ==
    (IF a.hampel_correct THEN WithFilter(10, "hampel") ELSE <<>>)
    \o WithPeakDetector
    \o WithTimeDomainAnalyzer
    \o WithNonlinearAnalyzer
    \o (IF a.calc_freq THEN WithFrequencyDomainAnalyzer(a.freq_method) ELSE <<>>)
    \o WithBreathingAnalyzer(a.breathing_method)

\* the processors process_segmentwise() adds, in the order it adds them
SegmentwiseProcessors(a) ==
    (IF a.calc_freq THEN WithFrequencyDomainAnalyzer(a.freq_method) ELSE <<>>)
    \o WithPeakDetector
    \o WithTimeDomainAnalyzer
    \o WithNonlinearAnalyzer
    \o WithBreathingAnalyzer(a.breathing_method)

\* the processors process_rr() adds, in the order it adds them
RrProcessors(a) ==
    WithTimeDomainAnalyzer
    \o WithNonlinearAnalyzer
    \o (IF a.calc_freq THEN WithFrequencyDomainAnalyzer(a.freq_method) ELSE <<>>)
    \o WithBreathingAnalyzer(a.breathing_method)

\* ProcessingPipeline.process before its loop: 'hr' and 'sample_rate'
PipelinePrelude(sig, res) ==
    SetWorkingData(SetWorkingData(res, "hr", sig.data), "sample_rate", sig.sample_rate)

\* ------------------------------------------------------------------------
\* SegmentedPipeline (processing/pipeline.py)
\* ------------------------------------------------------------------------

RECURSIVE WindowLoop(_, _, _, _)
\* while end < data_len: slices.append((start, end)); start, end += stepsize
WindowLoop(start, end, stepsize, data_len) ==
    IF end < data_len
    THEN LET rest == WindowLoop(start + stepsize, end + stepsize, stepsize, data_len)
         IN  [slices |-> <<<<start, end>>>> \o rest.slices, start |-> rest.start]
    ELSE [slices |-> <<>>, start |-> start]

\* make_windows appending the remaining data whatever its size
MakeWindowsAlwaysTail(data_len, sample_rate, segment_width, overlap, segment_min_size) ==
    LET window == segment_width * sample_rate
        stepsize == ((overlap[2] - overlap[1]) * window) \div overlap[2]
        loop == WindowLoop(0, window, stepsize, data_len)
    IN  IF stepsize = 0 /\ window < data_len
        THEN [hangs |-> TRUE, slices |-> <<>>]
        ELSE [hangs |-> FALSE, slices |-> loop.slices \o <<<<loop.start, data_len>>>>]

\* make_windows; overlap is the fraction overlap[1] / overlap[2].  With
\* stepsize = 0 and window < data_len the while loop never ends (hangs)
MakeWindows(data_len, sample_rate, segment_width, overlap, segment_min_size) ==
    LET window == segment_width * sample_rate
        stepsize == ((overlap[2] - overlap[1]) * window) \div overlap[2]
        min_size == segment_min_size * sample_rate
        loop == WindowLoop(0, window, stepsize, data_len)
    IN  IF stepsize = 0 /\ window < data_len
        THEN [hangs |-> TRUE, slices |-> <<>>]
        ELSE [hangs |-> FALSE,
              slices |-> loop.slices \o
                         (IF data_len - loop.start >= min_size
                          THEN <<<<loop.start, data_len>>>>
                          ELSE <<>>)]

RECURSIVE MeasureList(_, _, _)
\* aggregated_measures[key]: the values of key over the segments that have it
MeasureList(segments, key, i) ==
    IF i > Len(segments) THEN <<>>
    ELSE (IF key \in DOMAIN segments[i].measures
          THEN <<segments[i].measures[key]>>
          ELSE <<>>)
         \o MeasureList(segments, key, i + 1)

\* _aggregate_segment_results
AggregateSegmentResults(res) ==
    LET keys == UNION {DOMAIN res.segments[i].measures : i \in 1..Len(res.segments)}
        aggregated == [k \in keys |-> MeasureList(res.segments, k, 1)]
        indices == [i \in 1..Len(res.segments) |->
                        res.segments[i].working_data["segment_indices"]]
    IN  SetWorkingData([res EXCEPT !.measures = Update(res.measures, aggregated)],
                       "segment_indices", indices)

\* ------------------------------------------------------------------------
\* State
\* ------------------------------------------------------------------------

VARIABLES
    entry,      \* the entry point this behaviour runs
    args,       \* the arguments of the call
    signal,     \* the HeartRateSignal handed to the stages
    detector,   \* the peak detector object: [min_bpm, max_bpm]
    returned,   \* what the last call returned to its caller (None if nothing)
    phase,      \* "init", "run", "segments", "done", "raised" or "hung" for a
                \* pipeline run; for a signal or a result on its own, the
                \* name of the last operation called on it
    processors, \* the pipeline's processors, in the order they were added
    pc,         \* the position in processors of the next one to apply
    result,     \* the AnalysisResult the stages work on
    trace,      \* the kinds of the processors applied to signal so far
    windows,    \* SegmentedPipeline: the windows of the signal
    widx,       \* SegmentedPipeline: the position of the next window
    whole,      \* SegmentedPipeline: the whole signal
    outer,      \* SegmentedPipeline: the result the segments are added to
    other,      \* the AnalysisResult handed to merge_from
    calls,      \* the number of calls made on result, or of runs of the
                \* pipeline, by its user
    numerics,   \* what scipy's numerics yield for the RR-intervals of the
                \* signal when a pipeline is run on it again
    heap,       \* the sample arrays, metadata dicts and Signal objects
                \* allocated when signals are constructed and sliced
    pending,    \* for each measure stage run on its own: whether it has
                \* begun and the writes to the result it has still to make
    threads     \* for each concurrent invocation of one pipeline: its
                \* position, its signal and result and its local variables

vars == <<entry, args, signal, detector, returned, phase, processors, pc,
          result, trace, windows, widx, whole, outer, other, calls,
          numerics, heap, pending, threads>>

\* PeakDetector.__init__
NewDetector(min_bpm, max_bpm) == [min_bpm |-> min_bpm, max_bpm |-> max_bpm]

\* sample rates (Hz) the detector specification draws; each divides 1000
SampleRates == {1, 2, 4, 5, 10}

\* sample amplitudes the detector specification draws
Amplitudes == {0, 1, 2}

\* all sample sequences of length 1..maxlen over the amplitudes
Signals(maxlen) == UNION {[1..n -> Amplitudes] : n \in 1..maxlen}

\* the sample sequences of length len with pulses of height 1 only
PulseSignals(len) == [1..len -> {0, 1}]

\* the arguments no entry point of a behaviour reads
NoArgs ==
    [hrdata |-> <<>>, sample_rate |-> 1, rr_list |-> <<>>,
     hampel_correct |-> FALSE, calc_freq |-> FALSE,
     freq_method |-> "welch", breathing_method |-> "welch",
     bpmmin |-> DefaultMinBpm, bpmmax |-> DefaultMaxBpm,
     segment_width |-> 1, segment_overlap |-> <<0, 1>>, segment_min_size |-> 1]

\* the environment of a stage that calls none of scipy's numerics
NoEnv == [powers |-> <<0, 0, 0>>, breathing |-> "ok", rate |-> 0]

\* no array, dict or Signal allocated
NoHeap == [arrays |-> <<>>, dicts |-> <<>>, signals |-> <<>>]

\* no measure stage run on its own
NoPending == <<>>

\* no concurrent invocation
NoThreads == <<>>

\* the pipeline variables before anything is built
NoPipeline ==
    /\ processors = <<>>
    /\ pc = 1
    /\ result = NewResult
    /\ trace = <<>>
    /\ windows = <<>>
    /\ widx = 1
    /\ whole = NewSignal(<<>>, 1)
    /\ outer = NewResult
    /\ other = NewResult
    /\ calls = 0
    /\ numerics = NoEnv
    /\ heap = NoHeap
    /\ pending = NoPending
    /\ threads = NoThreads

\* ------------------------------------------------------------------------
\* Specification SpecDetect: detect_peaks on every small signal
\* ------------------------------------------------------------------------

InitDetect ==
    /\ entry = "detect_peaks"
    /\ args = NoArgs
    /\ \E data \in Signals(DetMaxLen) \cup PulseSignals(DetMaxLen + 2),
          sr \in SampleRates :
           signal = NewSignal(data, sr)
    /\ detector = NewDetector(DefaultMinBpm, DefaultMaxBpm)
    /\ returned = None
    /\ phase = "init"
    /\ NoPipeline

\* peaks = detector.detect_peaks(signal)
CallDetectPeaks ==
    /\ entry = "detect_peaks"
    /\ phase = "init"
    /\ LET fit == DetectPeaks(detector, signal.data, signal.sample_rate)
       IN  /\ returned' = Some(fit)
           /\ detector' = fit.det
    /\ phase' = "done"
    /\ UNCHANGED <<numerics, heap, pending, threads>>
    /\ UNCHANGED <<calls, entry, args, other, signal, processors, pc, result, trace,
                   windows, widx, whole, outer>>

NextDetect == CallDetectPeaks

SpecDetect == InitDetect /\ [][NextDetect]_vars

\* C1: for every non-empty signal with a positive sample rate detect_peaks
\* returns (the call ends in "done" with a value, there is no raising
\* outcome), and the beat positions it returns are strictly increasing
\* sample indices, each in [0, N) for N the number of samples.
C1_PeaksIncreasingInRange ==
    (entry = "detect_peaks" /\ phase = "done") =>
        /\ ~returned.isNone
        /\ \A i \in 1..Len(returned.val.best_peaks) :
               returned.val.best_peaks[i] \in 0..(Len(signal.data) - 1)
        /\ \A i \in 1..(Len(returned.val.best_peaks) - 1) :
               returned.val.best_peaks[i] < returned.val.best_peaks[i + 1]

\* detect_peaks has returned two or more beats
C1_Witness ==
    /\ entry = "detect_peaks"
    /\ phase = "done"
    /\ Len(returned.val.best_peaks) >= 2

\* C2: when no candidate percentage gives a BPM inside the configured range
\* (the search went on to the widened range or to the default percentage),
\* detect_peaks still returns a non-empty beat list.
C2_NonEmptyWithoutCandidate ==
    (entry = "detect_peaks" /\ phase = "done"
        /\ returned.val.path # "configured") =>
        Len(returned.val.best_peaks) > 0

\* C19: the beat list detected for a threshold percentage p (here the
\* percentage detect_peaks settled on and the beats it returned for it) has
\* exactly one beat in every maximal run of consecutive sample indices whose
\* sample exceeds threshold[i] = baseline[i] + mean(baseline / 100) * p, that
\* beat is a sample of maximum amplitude in its run, and there is no beat
\* outside the runs.
C19_OneBeatPerRunAtItsMaximum ==
    (entry = "detect_peaks" /\ phase = "done") =>
        LET data == signal.data
            last == Len(data) - 1
            peaks == returned.val.best_peaks
            rol_mean == CalculateRollingMean(data, signal.sample_rate)
            Marked(i) == AboveThreshold(data, rol_mean, returned.val.best_ma, i)
            IsRun(a, b) ==
                /\ \A i \in a..b : Marked(i)
                /\ a = 0 \/ ~Marked(a - 1)
                /\ b = last \/ ~Marked(b + 1)
        IN  /\ \A k \in 1..Len(peaks) : Marked(peaks[k])
            /\ \A a \in 0..last : \A b \in a..last :
                   IsRun(a, b) =>
                       \E k \in 1..Len(peaks) :
                           /\ peaks[k] \in a..b
                           /\ \A i \in a..b : data[peaks[k] + 1] >= data[i + 1]
                           /\ \A j \in 1..Len(peaks) : peaks[j] \in a..b => j = k

\* C22: whenever some percentage p of the candidate list 5, 10, 15, 20, 25,
\* 30, 40, 50, 60, 70, 80, 90, 100, 110, 120, 150, 200, 300 yields two or
\* more beats with min_bpm <= beats / duration * 60 <= max_bpm, detect_peaks
\* returns the beats of such a candidate whose RR-interval standard deviation
\* is the least among all of them, never those of a candidate with fewer
\* than two beats or a BPM out of range.
C22_ReturnsLeastRrsdValidCandidate ==
    (entry = "detect_peaks" /\ phase = "done") =>
        LET data == signal.data
            rol_mean == CalculateRollingMean(data, signal.sample_rate)
            Beats(p) == DetectWithThreshold(data, rol_mean, p)
            Valid(p) ==
                /\ Len(Beats(p)) >= 2
                /\ detector.min_bpm * Len(data)
                     <= Len(Beats(p)) * signal.sample_rate * 60
                /\ Len(Beats(p)) * signal.sample_rate * 60
                     <= detector.max_bpm * Len(data)
            valid == {p \in {5, 10, 15, 20, 25, 30, 40, 50, 60, 70, 80, 90, 100,
                             110, 120, 150, 200, 300} : Valid(p)}
            Var(p) == RrVariance(Beats(p), signal.sample_rate)
        IN  valid # {} =>
                \E p \in valid :
                    /\ returned.val.best_peaks = Beats(p)
                    /\ \A q \in valid : Var(p)[1] * Var(q)[2] <= Var(q)[1] * Var(p)[2]

\* C23: when no candidate of the search is valid under the configured
\* [min_bpm, max_bpm], detect_peaks returns the least-RRSD candidate valid
\* under [30, 200] (the one repetition of the search); when none is valid
\* under [30, 200] either, it returns the beats of the default percentage 20
\* whatever their BPM; and when some candidate is valid under the configured
\* range, it returns a least-RRSD candidate valid under that range, the
\* widened range playing no part.
C23_WidenedOnceThenDefault ==
    (entry = "detect_peaks" /\ phase = "done") =>
        LET data == signal.data
            rol_mean == CalculateRollingMean(data, signal.sample_rate)
            Beats(p) == DetectWithThreshold(data, rol_mean, p)
            Valid(p, lo, hi) ==
                /\ Len(Beats(p)) >= 2
                /\ lo * Len(data) <= Len(Beats(p)) * signal.sample_rate * 60
                /\ Len(Beats(p)) * signal.sample_rate * 60 <= hi * Len(data)
            candidates == {MaPercList[i] : i \in 1..Len(MaPercList)}
            configured == {p \in candidates :
                              Valid(p, detector.min_bpm, detector.max_bpm)}
            widened == {p \in candidates : Valid(p, 30, 200)}
            Var(p) == RrVariance(Beats(p), signal.sample_rate)
            LeastOf(set) ==
                \E p \in set :
                    /\ returned.val.best_peaks = Beats(p)
                    /\ \A q \in set : Var(p)[1] * Var(q)[2] <= Var(q)[1] * Var(p)[2]
        IN  /\ configured # {} => LeastOf(configured) /\ returned.val.path = "configured"
            /\ (configured = {} /\ widened # {}) =>
                   LeastOf(widened) /\ returned.val.path = "widened"
            /\ (configured = {} /\ widened = {}) =>
                   /\ returned.val.best_peaks = Beats(20)
                   /\ returned.val.path = "default"

\* detect_peaks has returned beats that are valid under 30..200 only
C23_Witness ==
    /\ entry = "detect_peaks"
    /\ phase = "done"
    /\ returned.val.path = "widened"
    /\ Len(returned.val.best_peaks) >= 2

\* C26: the rolling baseline detect_peaks works from has exactly as many
\* entries as the signal has samples, and with W = round(window_seconds *
\* sample_rate) (window_seconds = 3/4) baseline[i] is the mean of the W
\* samples of the window centred on i, the boundary sample standing in for
\* the samples beyond an edge (for even W either centring is accepted); when
\* the window is smaller than one sample the baseline is the samples
\* themselves.
C26_BaselineIsCentredMean ==
    (entry = "detect_peaks" /\ phase = "done") =>
        LET data == signal.data
            n == Len(data)
            rol_mean == CalculateRollingMean(data, signal.sample_rate)
            W == (2 * WindowNum * signal.sample_rate + WindowDen) \div (2 * WindowDen)
            At(j) == data[(IF j < 0 THEN 0 ELSE IF j > n - 1 THEN n - 1 ELSE j) + 1]
            SumFrom(a) == Sum([k \in 1..W |-> At(a + k - 1)])
            exact == WindowNum * signal.sample_rate
        IN  /\ Len(rol_mean.sums) = n
            /\ rol_mean.window > 0
            /\ \A i \in 0..(n - 1) :
                   IF exact < WindowDen
                   THEN rol_mean.sums[i + 1] = rol_mean.window * data[i + 1]
                   ELSE \/ rol_mean.sums[i + 1] * W
                             = rol_mean.window * SumFrom(i - (W \div 2))
                        \/ rol_mean.sums[i + 1] * W
                             = rol_mean.window * SumFrom(i - ((W - 1) \div 2))

\* ------------------------------------------------------------------------
\* Specification Spec: process, process_segmentwise and process_rr
\* ------------------------------------------------------------------------

\* gaps (in samples) between the pulses of a drawn signal
GapChoices == {2, 3, 5}

RECURSIVE PulseTrain(_)
\* a pulse of height 1, then for each gap g: g - 1 samples at 0 and a pulse
PulseTrain(gaps) ==
    IF Len(gaps) = 0 THEN <<1>>
    ELSE PulseTrain(SubSeq(gaps, 1, Len(gaps) - 1))
         \o [i \in 1..gaps[Len(gaps)] |-> IF i = gaps[Len(gaps)] THEN 1 ELSE 0]

\* the signals process and process_segmentwise are called with
PipelineSignals ==
    {PulseTrain(g) : g \in UNION {[1..n -> GapChoices] : n \in 0..MaxGaps}}
    \cup {<<0>>, <<0, 0, 0>>}

\* the sample rates (Hz) of those signals
PipelineRates == {4}

\* RR-intervals (ms) process_rr is called with
RrChoices == {300, 330, 400}

\* method names a caller passes: one the analyzers know and one they do not
MethodChoices == {"welch", "spectrum"}

ProcessArgs ==
    {[NoArgs EXCEPT !.hrdata = d, !.sample_rate = sr,
                    !.hampel_correct = h, !.calc_freq = f,
                    !.freq_method = fm, !.breathing_method = bm] :
        d \in PipelineSignals, sr \in PipelineRates, h \in BOOLEAN, f \in BOOLEAN,
        fm \in MethodChoices, bm \in MethodChoices}

SegmentwiseArgs ==
    {[NoArgs EXCEPT !.hrdata = d, !.sample_rate = sr,
                    !.calc_freq = f, !.segment_width = 2,
                    !.segment_overlap = o, !.segment_min_size = 1] :
        d \in PipelineSignals, sr \in PipelineRates, f \in BOOLEAN,
        o \in {<<0, 1>>, <<1, 2>>, <<9, 10>>}}

RrArgs ==
    {[NoArgs EXCEPT !.rr_list = r, !.calc_freq = f] :
        r \in UNION {[1..n -> RrChoices] : n \in 0..MaxRrLen}, f \in BOOLEAN}

Init ==
    /\ \/ entry = "process" /\ args \in ProcessArgs
       \/ entry = "process_segmentwise" /\ args \in SegmentwiseArgs
       \/ entry = "process_rr" /\ args \in RrArgs
    /\ signal = NewSignal(<<>>, 1)
    /\ detector = NewDetector(DefaultMinBpm, DefaultMaxBpm)
    /\ returned = None
    /\ phase = "init"
    /\ NoPipeline

\* process(): build the signal and the pipeline, then pipeline.process up to
\* its loop
Process ==
    /\ entry = "process"
    /\ phase = "init"
    /\ signal' = NewSignal(args.hrdata, args.sample_rate)
    /\ processors' = ProcessProcessors(args)
    /\ detector' = NewDetector(args.bpmmin, args.bpmmax)
    /\ result' = PipelinePrelude(signal', NewResult)
    /\ pc' = 1
    /\ phase' = "run"
    /\ UNCHANGED <<numerics, heap, pending, threads>>
    /\ UNCHANGED <<calls, entry, args, other, returned, trace, windows, widx,
                   whole, outer>>

\* process_rr(): the result seeded with RR_list and RR_masklist, the dummy
\* signal with _rr_intervals set, then pipeline.process up to its loop
ProcessRr ==
    /\ entry = "process_rr"
    /\ phase = "init"
    /\ signal' = [NewSignal([i \in 1..Sum(args.rr_list) |-> 0], 1000)
                    EXCEPT !.rr_intervals = Some(args.rr_list)]
    /\ processors' = RrProcessors(args)
    /\ result' = PipelinePrelude(signal',
                    SetWorkingData(SetWorkingData(NewResult, "RR_list", args.rr_list),
                                   "RR_masklist", [i \in 1..Len(args.rr_list) |-> 0]))
    /\ pc' = 1
    /\ phase' = "run"
    /\ UNCHANGED <<numerics, heap, pending, threads>>
    /\ UNCHANGED <<calls, entry, args, other, detector, returned, trace, windows,
                   widx, whole, outer>>

\* process_segmentwise(): build the signal and the segmented pipeline, then
\* SegmentedPipeline.process up to its loop over the windows
ProcessSegmentwise ==
    /\ entry = "process_segmentwise"
    /\ phase = "init"
    /\ whole' = NewSignal(args.hrdata, args.sample_rate)
    /\ processors' = SegmentwiseProcessors(args)
    /\ detector' = NewDetector(args.bpmmin, args.bpmmax)
    /\ LET made == MakeWindows(Len(args.hrdata), args.sample_rate, args.segment_width,
                               args.segment_overlap, args.segment_min_size)
       IN  /\ windows' = made.slices
           /\ phase' = IF made.hangs THEN "hung" ELSE "segments"
    /\ widx' = 1
    /\ outer' = NewResult
    /\ UNCHANGED <<numerics, heap, pending, threads>>
    /\ UNCHANGED <<calls, entry, args, other, signal, returned, pc, result, trace>>

\* one round of the loop over the windows up to the inner pipeline's loop:
\* the segment signal and a fresh result with 'hr' and 'sample_rate'
SegmentBegin ==
    /\ phase = "segments"
    /\ widx <= Len(windows)
    /\ signal' = NewSignal(SubSeq(whole.data, windows[widx][1] + 1, windows[widx][2]),
                           whole.sample_rate)
    /\ result' = PipelinePrelude(signal', NewResult)
    /\ pc' = 1
    /\ trace' = <<>>
    /\ phase' = "run"
    /\ UNCHANGED <<numerics, heap, pending, threads>>
    /\ UNCHANGED <<calls, entry, args, other, detector, returned, processors, windows, widx,
                   whole, outer>>

\* the environment of one stage: what scipy's numerics yield for it (the band
\* integrals of the frequency analyzer; whether the breathing analyzer's
\* estimate fails and the rate it finds)
Envs(processor) ==
    IF processor.kind = "frequency"
    THEN {[NoEnv EXCEPT !.powers = p] :
             p \in (0..MaxPower) \X (0..MaxPower) \X (0..MaxPower)}
    ELSE IF processor.kind = "breathing"
    THEN {[NoEnv EXCEPT !.breathing = b, !.rate = r] :
             b \in {"ok", "fail"}, r \in {0, 1}}
    ELSE {NoEnv}

\* the loop of ProcessingPipeline.process at a filter
ApplyFilter ==
    /\ phase = "run"
    /\ pc <= Len(processors)
    /\ processors[pc].kind = "hampel"
    /\ LET out == FilterProcess(processors[pc], signal, result)
       IN  /\ signal' = out.signal
           /\ result' = out.result
           /\ phase' = IF out.raised THEN "raised" ELSE "run"
    /\ pc' = pc + 1
    /\ trace' = Append(trace, processors[pc].kind)
    /\ UNCHANGED <<numerics, heap, pending, threads>>
    /\ UNCHANGED <<calls, entry, args, other, detector, returned, processors, windows, widx,
                   whole, outer>>

\* the loop of ProcessingPipeline.process at the peak detector
ApplyPeakDetector ==
    /\ phase = "run"
    /\ pc <= Len(processors)
    /\ processors[pc].kind = "peak"
    /\ \E out \in {AdaptiveProcess(detector, signal, result)} :
           /\ signal' = out.signal
           /\ result' = out.result
           /\ detector' = out.det
    /\ pc' = pc + 1
    /\ trace' = Append(trace, processors[pc].kind)
    /\ UNCHANGED <<numerics, heap, pending, threads>>
    /\ UNCHANGED <<calls, entry, args, other, returned, phase, processors, windows, widx,
                   whole, outer>>

\* the loop of ProcessingPipeline.process at an HRVAnalyzer
ApplyAnalyzer ==
    /\ phase = "run"
    /\ pc <= Len(processors)
    /\ processors[pc].kind \in {"time", "nonlinear", "frequency"}
    /\ \E env \in Envs(processors[pc]) :
         \E out \in {HRVAnalyzerProcess(processors[pc], signal, result, env)} :
             /\ signal' = out.signal
             /\ result' = out.result
             /\ phase' = IF out.raised THEN "raised" ELSE "run"
    /\ pc' = pc + 1
    /\ trace' = Append(trace, processors[pc].kind)
    /\ UNCHANGED <<numerics, heap, pending, threads>>
    /\ UNCHANGED <<calls, entry, args, other, detector, returned, processors, windows, widx,
                   whole, outer>>

\* the loop of ProcessingPipeline.process at the breathing analyzer
ApplyBreathing ==
    /\ phase = "run"
    /\ pc <= Len(processors)
    /\ processors[pc].kind = "breathing"
    /\ \E env \in Envs(processors[pc]) :
         \E out \in {BreathingProcess(processors[pc], signal, result, env)} :
             /\ signal' = out.signal
             /\ result' = out.result
             /\ phase' = IF out.raised THEN "raised" ELSE "run"
    /\ pc' = pc + 1
    /\ trace' = Append(trace, processors[pc].kind)
    /\ UNCHANGED <<numerics, heap, pending, threads>>
    /\ UNCHANGED <<calls, entry, args, other, detector, returned, processors, windows, widx,
                   whole, outer>>

\* process() and process_rr() return result.working_data, result.measures
Return ==
    /\ phase = "run"
    /\ pc > Len(processors)
    /\ entry \in {"process", "process_rr"}
    /\ phase' = "done"
    /\ UNCHANGED <<numerics, heap, pending, threads>>
    /\ UNCHANGED <<calls, entry, args, other, signal, detector, returned, processors, pc,
                   result, trace, windows, widx, whole, outer>>

\* the rest of one round of the loop over the windows: segment_indices and
\* add_segment
SegmentEnd ==
    /\ phase = "run"
    /\ pc > Len(processors)
    /\ entry = "process_segmentwise"
    /\ outer' = AddSegment(outer,
                    SetWorkingData(result, "segment_indices", windows[widx]))
    /\ widx' = widx + 1
    /\ phase' = "segments"
    /\ UNCHANGED <<numerics, heap, pending, threads>>
    /\ UNCHANGED <<calls, entry, args, other, signal, detector, returned, processors, pc,
                   result, trace, windows, whole>>

\* after the loop over the windows: _aggregate_segment_results, and
\* process_segmentwise() returns
Aggregate ==
    /\ phase = "segments"
    /\ widx > Len(windows)
    /\ outer' = AggregateSegmentResults(outer)
    /\ phase' = "done"
    /\ UNCHANGED <<numerics, heap, pending, threads>>
    /\ UNCHANGED <<calls, entry, args, other, signal, detector, returned, processors, pc,
                   result, trace, windows, widx, whole>>

Next ==
    \/ Process
    \/ ProcessRr
    \/ ProcessSegmentwise
    \/ SegmentBegin
    \/ ApplyFilter
    \/ ApplyPeakDetector
    \/ ApplyAnalyzer
    \/ ApplyBreathing
    \/ Return
    \/ SegmentEnd
    \/ Aggregate

Spec == Init /\ [][Next]_vars

\* ------------------------------------------------------------------------
\* Properties of Spec
\* ------------------------------------------------------------------------

\* C3: nothing reachable from process() raises, for every combination of its
\* options (hampel_correct and calc_freq with a known method included): no
\* call of process ends in an exception.
C3_ProcessNeverRaises ==
    (entry = "process" /\ (args.calc_freq => args.freq_method \in FreqMethods)) =>
        phase # "raised"

\* C4: after artifact correction RR_list_cor is exactly the subsequence, in
\* position order, of the intervals of RR_list whose two bounding beats i and
\* i + 1 are both unmasked in binary_peaklist; it is no longer than RR_list,
\* and RR_masklist flags exactly the other intervals.
C4_CorrectedIsUnmaskedSubsequence ==
    ("RR_list_cor" \in DOMAIN result.working_data
        /\ "binary_peaklist" \in DOMAIN result.working_data) =>
        LET rr == result.working_data["RR_list"]
            cor == result.working_data["RR_list_cor"]
            mask == result.working_data["RR_masklist"]
            beats == result.working_data["binary_peaklist"]
            kept == {i \in 1..Len(rr) : beats[i] = 1 /\ beats[i + 1] = 1}
            rank(i) == Cardinality({j \in kept : j <= i})
        IN  /\ Len(beats) = Len(rr) + 1
            /\ Len(cor) = Cardinality(kept)
            /\ Len(cor) <= Len(rr)
            /\ \A i \in kept : cor[rank(i)] = rr[i]
            /\ Len(mask) = Len(rr)
            /\ \A i \in 1..Len(rr) : mask[i] = IF i \in kept THEN 0 ELSE 1

\* the correction has rejected some intervals of the raw list and kept others
C4_Witness ==
    /\ "RR_list_cor" \in DOMAIN result.working_data
    /\ Len(result.working_data["RR_list_cor"]) > 0
    /\ Len(result.working_data["RR_list_cor"]) < Len(result.working_data["RR_list"])

\* C5: when peak detection yields fewer than 2 raw RR-intervals, the
\* corrected list the artifact correction produces is empty.
C5_ShortRawListGivesEmptyCorrected ==
    (/\ \E i \in 1..Len(trace) : trace[i] = "peak"
     /\ "RR_list" \in DOMAIN result.working_data
     /\ Len(result.working_data["RR_list"]) < 2
     /\ "RR_list_cor" \in DOMAIN result.working_data) =>
        result.working_data["RR_list_cor"] = <<>>

\* C8: in every run started by process or process_segmentwise the peak
\* detection with RR-correction is applied before any measure stage.
C8_PeakDetectionBeforeMeasures ==
    entry \in {"process", "process_segmentwise"} =>
        \A i \in 1..Len(trace) :
            trace[i] \in {"time", "frequency", "nonlinear", "breathing"} =>
                \E j \in 1..(i - 1) : trace[j] = "peak"

C10_SingleIntervalMeasures ==
    (/\ \E i \in 1..Len(trace) : trace[i] = "time"
     /\ "RR_list_cor" \in DOMAIN result.working_data
     /\ Len(result.working_data["RR_list_cor"]) = 1) =>
        /\ {"bpm", "ibi", "sdnn", "sdsd", "rmssd", "pnn20", "pnn50", "hr_mad"}
              \subseteq DOMAIN result.measures
        /\ result.measures["sdnn"] = Sqrt(0, 1)
        /\ \A k \in {"sdsd", "rmssd", "pnn20", "pnn50", "hr_mad"} :
              IsNaN(result.measures[k])

\* C11: the frequency-domain stage applied while the result holds a
\* corrected RR list of length <= 3 (lengths 0 and 1 included) raises nothing
\* and leaves the ten frequency measures vlf, lf, hf, lf/hf, p_total,
\* vlf_perc, lf_perc, hf_perc, lf_nu and hf_nu in the result, each NaN, and
\* every measure another stage wrote as it was.
C11_ShortListGivesUndefinedFrequency ==
    [][(/\ phase = "run"
        /\ pc <= Len(processors)
        /\ pc' = pc + 1
        /\ processors[pc].kind = "frequency"
        /\ "RR_list_cor" \in DOMAIN result.working_data
        /\ Len(result.working_data["RR_list_cor"]) <= 3) =>
            LET keys == {"vlf", "lf", "hf", "lf/hf", "p_total", "vlf_perc",
                         "lf_perc", "hf_perc", "lf_nu", "hf_nu"}
            IN  /\ phase' = "run"
                /\ \A k \in keys :
                       /\ k \in DOMAIN result'.measures
                       /\ IsNaN(result'.measures[k])
                /\ \A k \in (DOMAIN result.measures) \ keys :
                       /\ k \in DOMAIN result'.measures
                       /\ result'.measures[k] = result.measures[k]
       ]_vars

\* C12: a frequency-domain stage configured with a method other than 'fft',
\* 'periodogram' or 'welch' ends in a raised error whenever it is run,
\* whatever the RR input (lists too short to analyse included).
C12_UnknownMethodAlwaysRaises ==
    [][(/\ phase = "run"
        /\ pc <= Len(processors)
        /\ pc' = pc + 1
        /\ processors[pc].kind = "frequency"
        /\ processors[pc].method \notin {"fft", "periodogram", "welch"}) =>
            phase' = "raised"
       ]_vars

\* C13: every ratio-type measure in the result is NaN exactly when its
\* denominator is zero and the plain quotient otherwise: lf/hf = lf / hf
\* (hf = 0), vlf_perc, lf_perc, hf_perc = 100 * band / p_total (p_total = 0),
\* lf_nu, hf_nu = 100 * band / (lf + hf) (lf + hf = 0) and
\* sd1/sd2 = sd1 / sd2 (sd2 = 0); no stage that computes them raises.
C13_RatiosUndefinedIffZeroDenominator ==
    LET m == result.measures
        \* r is the quotient of the quotients a and b
        IsQuotient(r, a, b) ==
            /\ r[1] = "rat"
            /\ r[2] * a[3] * b[2] = a[2] * b[3] * r[3]
        Times100(a) == <<"rat", 100 * a[2], a[3]>>
        Plus(a, b) == <<"rat", a[2] * b[3] + b[2] * a[3], a[3] * b[3]>>
        Ratio(key, a, b) ==
            IF b[2] = 0 THEN IsNaN(m[key]) ELSE IsQuotient(m[key], a, b)
    IN  /\ ("lf/hf" \in DOMAIN m /\ ~IsNaN(m["hf"])) =>
              /\ Ratio("lf/hf", m["lf"], m["hf"])
              /\ Ratio("vlf_perc", Times100(m["vlf"]), m["p_total"])
              /\ Ratio("lf_perc", Times100(m["lf"]), m["p_total"])
              /\ Ratio("hf_perc", Times100(m["hf"]), m["p_total"])
              /\ Ratio("lf_nu", Times100(m["lf"]), Plus(m["lf"], m["hf"]))
              /\ Ratio("hf_nu", Times100(m["hf"]), Plus(m["lf"], m["hf"]))
        /\ ("sd1/sd2" \in DOMAIN m /\ ~IsNaN(m["sd2"])) =>
              IF m["sd2"][2] = 0 THEN IsNaN(m["sd1/sd2"])
              ELSE /\ m["sd1/sd2"][1] = "sqrt"
                   /\ <<"rat", m["sd1/sd2"][2], m["sd1/sd2"][3]>>
                        = Rat(m["sd1"][2] * m["sd2"][3], m["sd1"][3] * m["sd2"][2])
        /\ (/\ Len(trace) > 0
            /\ \/ trace[Len(trace)] = "nonlinear"
               \/ /\ trace[Len(trace)] = "frequency"
                  /\ processors[Len(trace)].method \in FreqMethods) =>
              phase # "raised"

\* sd2 is zero with sd1/sd2 undefined, hf is positive with lf/hf a quotient
C13_Witness ==
    /\ {"sd1/sd2", "lf/hf", "lf_nu"} \subseteq DOMAIN result.measures
    /\ ~IsNaN(result.measures["sd2"])
    /\ result.measures["sd2"][2] = 0
    /\ IsNaN(result.measures["sd1/sd2"])
    /\ ~IsNaN(result.measures["hf"])
    /\ result.measures["hf"][2] > 0
    /\ result.measures["lf"][2] > 0
    /\ result.measures["lf/hf"][1] = "rat"

\* C14: BreathingAnalyzer.process never ends in an exception: after it
\* 'breathingrate' is in the measures, NaN when fewer than 3 RR-intervals were
\* available and NaN whenever the stage stored no breathing signal (a step
\* inside it failed), and every measure written before is unchanged.
C14_BreathingNeverRaises ==
    [][(/\ phase = "run"
        /\ pc <= Len(processors)
        /\ pc' = pc + 1
        /\ processors[pc].kind = "breathing") =>
            LET rr == IF "RR_list_cor" \in DOMAIN result.working_data
                      THEN Some(result.working_data["RR_list_cor"])
                      ELSE signal'.rr_intervals
            IN  /\ phase' = "run"
                /\ "breathingrate" \in DOMAIN result'.measures
                /\ (rr.isNone \/ Len(rr.val) < 3) =>
                       /\ IsNaN(result'.measures["breathingrate"])
                       /\ result'.working_data = result.working_data
                /\ "breathing_signal" \notin DOMAIN result'.working_data =>
                       IsNaN(result'.measures["breathingrate"])
                /\ \A k \in (DOMAIN result.measures) \ {"breathingrate"} :
                       /\ k \in DOMAIN result'.measures
                       /\ result'.measures[k] = result.measures[k]
       ]_vars

\* the breathing stage has failed inside on three or more RR-intervals, after
\* the time-domain stage had written its measures
C14_Witness ==
    /\ \E i \in 1..Len(trace) : trace[i] = "breathing"
    /\ "RR_list_cor" \in DOMAIN result.working_data
    /\ Len(result.working_data["RR_list_cor"]) >= 3
    /\ "bpm" \in DOMAIN result.measures
    /\ "breathingrate" \in DOMAIN result.measures
    /\ IsNaN(result.measures["breathingrate"])

\* C18: a call of process() that returns leaves a complete result:
\* working_data holds peaklist, binary_peaklist, RR_list and RR_list_cor,
\* measures holds bpm, ibi, sdnn and rmssd, and the frequency keys lf and hf
\* are there exactly when calc_freq is true.
C18_ProcessResultComplete ==
    (entry = "process" /\ phase = "done") =>
        /\ {"peaklist", "binary_peaklist", "RR_list", "RR_list_cor"}
              \subseteq DOMAIN result.working_data
        /\ {"bpm", "ibi", "sdnn", "rmssd"} \subseteq DOMAIN result.measures
        /\ \A k \in {"lf", "hf"} : (k \in DOMAIN result.measures) <=> args.calc_freq

\* C20: after artifact correction, for every raw RR-interval i that lies
\* outside the accepted band (it is rejected) both of its bounding beats, i
\* and i + 1, are 0 in binary_peaklist.
C20_RejectedIntervalMarksBothBeats ==
    "binary_peaklist" \in DOMAIN result.working_data =>
        LET rr == result.working_data["RR_list"]
            beats == result.working_data["binary_peaklist"]
        IN  \A i \in 1..Len(rr) :
                RrOutside(rr, i) => (beats[i] = 0 /\ beats[i + 1] = 0)

\* C27: when process_segmentwise has returned, every window has been
\* processed before the aggregation (one segment result per window, in the
\* order of the windows), and every aggregated measure of the main result
\* is a list with exactly one entry per segment, in segment order: entry j
\* is segment j's value of that measure, and segment j is the one whose
\* window is working_data['segment_indices'][j].
C27_AggregatedListsAlignWithSegments ==
    (entry = "process_segmentwise" /\ phase = "done") =>
        LET segments == outer.segments
            n == Len(segments)
        IN  /\ widx > Len(windows)
            /\ n = Len(windows)
            /\ "segment_indices" \in DOMAIN outer.working_data
            /\ outer.working_data["segment_indices"] = windows
            /\ \A j \in 1..n :
                   segments[j].working_data["segment_indices"] = windows[j]
            /\ \A key \in DOMAIN outer.measures :
                   /\ Len(outer.measures[key]) = n
                   /\ \A j \in 1..n :
                          /\ key \in DOMAIN segments[j].measures
                          /\ outer.measures[key][j] = segments[j].measures[key]

\* ------------------------------------------------------------------------
\* Specification SpecSignal: assignments to HeartRateSignal.peaks and reads
\* of rr_intervals and rr_indices, in any order
\* ------------------------------------------------------------------------

\* sample indices an assigned peak list is made of
PeakPositions == {0, 1, 3}

\* the peak lists assigned: any order, repetitions included (the setter
\* takes any array)
PeakLists == UNION {[1..n -> PeakPositions] : n \in 0..MaxPeaks}

\* signal = HeartRateSignal(data, sample_rate)
InitSignal ==
    /\ entry = "signal"
    /\ args = NoArgs
    /\ \E sr \in SampleRates : signal = NewSignal(<<0, 0, 0, 0>>, sr)
    /\ detector = NewDetector(DefaultMinBpm, DefaultMaxBpm)
    /\ returned = None
    /\ phase = "init"
    /\ NoPipeline

\* signal.peaks = value
AssignPeaks ==
    /\ entry = "signal"
    /\ \E value \in {None} \cup {Some(p) : p \in PeakLists} :
           signal' = SetPeaks(signal, value)
    /\ returned' = None
    /\ phase' = "assigned"
    /\ UNCHANGED <<numerics, heap, pending, threads>>
    /\ UNCHANGED <<calls, entry, args, other, detector, processors, pc, result, trace,
                   windows, widx, whole, outer>>

\* signal.rr_intervals
GetRrIntervals ==
    /\ entry = "signal"
    /\ signal' = ReadRrIntervals(signal)
    /\ returned' = signal'.rr_intervals
    /\ phase' = "read_rr_intervals"
    /\ UNCHANGED <<numerics, heap, pending, threads>>
    /\ UNCHANGED <<calls, entry, args, other, detector, processors, pc, result, trace,
                   windows, widx, whole, outer>>

\* signal.rr_indices
GetRrIndices ==
    /\ entry = "signal"
    /\ signal' = ReadRrIndices(signal)
    /\ returned' = signal'.rr_indices
    /\ phase' = "read_rr_indices"
    /\ UNCHANGED <<numerics, heap, pending, threads>>
    /\ UNCHANGED <<calls, entry, args, other, detector, processors, pc, result, trace,
                   windows, widx, whole, outer>>

NextSignal == AssignPeaks \/ GetRrIntervals \/ GetRrIndices

SpecSignal == InitSignal /\ [][NextSignal]_vars

\* C6: after any sequence of assignments to peaks and reads of rr_intervals
\* and rr_indices, a read reflects the peaks currently assigned: rr_intervals
\* has len(peaks) - 1 entries (none below 2 peaks) with
\* RR[i] = (peaks[i+1] - peaks[i]) / sample_rate * 1000, and
\* rr_indices[i] = (peaks[i], peaks[i+1]).
C6_ReadsReflectCurrentPeaks ==
    (entry = "signal" /\ phase \in {"read_rr_intervals", "read_rr_indices"}) =>
        IF signal.peaks.isNone THEN returned.isNone
        ELSE LET peaks == signal.peaks.val
                 n == IF Len(peaks) < 2 THEN 0 ELSE Len(peaks) - 1
             IN  /\ ~returned.isNone
                 /\ Len(returned.val) = n
                 /\ phase = "read_rr_intervals" =>
                       \A i \in 1..n :
                           returned.val[i] * signal.sample_rate
                               = (peaks[i + 1] - peaks[i]) * 1000
                 /\ phase = "read_rr_indices" =>
                       \A i \in 1..n : returned.val[i] = <<peaks[i], peaks[i + 1]>>

\* rr_intervals has been read for a list of three peaks with unequal gaps
C6_Witness ==
    /\ entry = "signal"
    /\ phase = "read_rr_intervals"
    /\ ~signal.peaks.isNone
    /\ Len(signal.peaks.val) = 3
    /\ Len(returned.val) = 2
    /\ returned.val[1] # returned.val[2]

\* ------------------------------------------------------------------------
\* Specification SpecResult: set_measure, set_working_data, merge_from and
\* pipeline stages applied to one AnalysisResult, in any order
\* ------------------------------------------------------------------------

\* the signal the stages are applied to: six pulses, three samples apart
ResultSignal == PulseTrain(<<3, 3, 3, 3, 3>>)

\* the stages applied, each in its default configuration
Stages ==
    WithPeakDetector \o WithTimeDomainAnalyzer \o WithNonlinearAnalyzer
    \o WithFrequencyDomainAnalyzer("welch") \o WithBreathingAnalyzer("welch")

\* keys and values callers write with set_measure
MeasureWrites == {<<"bpm", NaN>>, <<"note", Rat(1, 1)>>}

\* keys and values callers write with set_working_data
DataWrites == {<<"RR_list_cor", <<800, 900>>>>, <<"note", <<>>>>}

\* the results handed to merge_from
OtherResults ==
    {NewResult,
     SetMeasure(NewResult, "bpm", Rat(70, 1)),
     SetWorkingData(SetMeasure(NewResult, "ibi", NaN), "hr", <<1>>),
     AddSegment(SetWorkingData(NewResult, "note", <<1>>), NewResult)}

\* processor.process(signal, result), dispatched on the processor's class
StageProcess(processor, det, sig, res, env) ==
    IF processor.kind = "peak"
    THEN [raised |-> FALSE, out |-> AdaptiveProcess(det, sig, res)]
    ELSE IF processor.kind = "breathing"
    THEN [raised |-> BreathingProcess(processor, sig, res, env).raised,
          out |-> BreathingProcess(processor, sig, res, env)]
    ELSE [raised |-> HRVAnalyzerProcess(processor, sig, res, env).raised,
          out |-> HRVAnalyzerProcess(processor, sig, res, env)]

\* result = AnalysisResult()
InitResult ==
    /\ entry = "result"
    /\ args = NoArgs
    /\ signal = NewSignal(ResultSignal, 4)
    /\ detector = NewDetector(DefaultMinBpm, DefaultMaxBpm)
    /\ returned = None
    /\ phase = "init"
    /\ NoPipeline

\* result.set_measure(key, value)
CallSetMeasure ==
    /\ entry = "result"
    /\ calls < MaxCalls
    /\ calls' = calls + 1
    /\ \E w \in MeasureWrites : result' = SetMeasure(result, w[1], w[2])
    /\ phase' = "set_measure"
    /\ UNCHANGED <<numerics, heap, pending, threads>>
    /\ UNCHANGED <<entry, args, other, signal, detector, returned, processors, pc,
                   trace, windows, widx, whole, outer>>

\* result.set_working_data(key, value)
CallSetWorkingData ==
    /\ entry = "result"
    /\ calls < MaxCalls
    /\ calls' = calls + 1
    /\ \E w \in DataWrites : result' = SetWorkingData(result, w[1], w[2])
    /\ phase' = "set_working_data"
    /\ UNCHANGED <<numerics, heap, pending, threads>>
    /\ UNCHANGED <<entry, args, other, signal, detector, returned, processors, pc,
                   trace, windows, widx, whole, outer>>

\* result.merge_from(other)
CallMergeFrom ==
    /\ entry = "result"
    /\ calls < MaxCalls
    /\ calls' = calls + 1
    /\ \E o \in OtherResults :
           /\ other' = o
           /\ result' = MergeFrom(result, o)
    /\ phase' = "merge_from"
    /\ UNCHANGED <<numerics, heap, pending, threads>>
    /\ UNCHANGED <<entry, args, signal, detector, returned, processors, pc,
                   trace, windows, widx, whole, outer>>

\* result = processor.process(signal, result)
ApplyStage ==
    /\ entry = "result"
    /\ calls < MaxCalls
    /\ calls' = calls + 1
    /\ \E i \in 1..Len(Stages) :
         \E env \in Envs(Stages[i]) :
           \E done \in {StageProcess(Stages[i], detector, signal, result, env)} :
               /\ ~done.raised
               /\ signal' = done.out.signal
               /\ result' = done.out.result
    /\ phase' = "stage"
    /\ UNCHANGED <<numerics, heap, pending, threads>>
    /\ UNCHANGED <<entry, args, other, detector, returned, processors, pc,
                   trace, windows, widx, whole, outer>>

NextResult == CallSetMeasure \/ CallSetWorkingData \/ CallMergeFrom \/ ApplyStage

SpecResult == InitResult /\ [][NextResult]_vars

\* C7: across set_measure, set_working_data, merge_from and stage
\* applications on one AnalysisResult no measure key and no working-data key
\* is ever dropped; and merge_from(other) leaves every receiver key absent
\* from other with its value, takes other's keys with other's values and
\* appends other's segments.
C7_KeysNeverShrink ==
    [][/\ DOMAIN result.measures \subseteq DOMAIN result'.measures
       /\ DOMAIN result.working_data \subseteq DOMAIN result'.working_data
       /\ phase' = "merge_from" =>
            /\ DOMAIN result'.measures
                 = DOMAIN result.measures \cup DOMAIN other'.measures
            /\ DOMAIN result'.working_data
                 = DOMAIN result.working_data \cup DOMAIN other'.working_data
            /\ \A k \in DOMAIN result'.measures :
                 result'.measures[k] = IF k \in DOMAIN other'.measures
                                       THEN other'.measures[k]
                                       ELSE result.measures[k]
            /\ \A k \in DOMAIN result'.working_data :
                 result'.working_data[k] = IF k \in DOMAIN other'.working_data
                                           THEN other'.working_data[k]
                                           ELSE result.working_data[k]
            /\ result'.segments = result.segments \o other'.segments
      ]_vars

\* a merge has overwritten one measure, kept others and appended a segment
C7_Witness ==
    /\ entry = "result"
    /\ phase = "merge_from"
    /\ \E k \in DOMAIN result.measures : k \notin DOMAIN other.measures
    /\ \E k \in DOMAIN result.working_data : k \notin DOMAIN other.working_data
    /\ "sdnn" \in DOMAIN result.measures
    /\ Len(other.segments) > 0
    /\ Len(result.segments) > Len(other.segments)

\* ------------------------------------------------------------------------
\* Specification SpecRerun: the pipeline process() builds, run again and
\* again on one signal, each time with a fresh result
\* ------------------------------------------------------------------------

\* the state of a run of the pipeline loop after a stage that is no peak
\* detector
AfterStage(det, out) ==
    [det |-> det, signal |-> out.signal, result |-> out.result, raised |-> out.raised]

\* the state of a run of the pipeline loop after the peak detector
AfterDetector(out) ==
    [det |-> out.det, signal |-> out.signal, result |-> out.result, raised |-> FALSE]

\* result = processor.process(signal, result) in the loop of
\* ProcessingPipeline.process; st is the state of the run before it
ProcessorProcess(processor, st, env) ==
    IF processor.kind = "hampel"
    THEN AfterStage(st.det, FilterProcess(processor, st.signal, st.result))
    ELSE IF processor.kind = "peak"
    THEN AfterDetector(AdaptiveProcess(st.det, st.signal, st.result))
    ELSE IF processor.kind = "breathing"
    THEN AfterStage(st.det, BreathingProcess(processor, st.signal, st.result, env))
    ELSE AfterStage(st.det, HRVAnalyzerProcess(processor, st.signal, st.result, env))

RECURSIVE PipelineLoop(_, _, _, _)
\* for processor in self._processors, from position i on; an exception ends
\* the loop
PipelineLoop(procs, i, env, st) ==
    IF st.raised \/ i > Len(procs) THEN st
    ELSE PipelineLoop(procs, i + 1, env, ProcessorProcess(procs[i], st, env))

\* ProcessingPipeline.process(signal) with result = None
PipelineProcess(procs, det, sig, env) ==
    PipelineLoop(procs, 1, env,
                 [det |-> det, signal |-> sig,
                  result |-> PipelinePrelude(sig, NewResult), raised |-> FALSE])

\* the signals the pipeline is run on: no pulse, pulse trains, and the train
\* of six pulses that gives the stages more than three RR-intervals
RerunSignals ==
    {PulseTrain(g) : g \in UNION {[1..n -> GapChoices] : n \in 0..MaxRerunGaps}}
    \cup {<<0>>, ResultSignal}

\* the BPM ranges the detector is configured with
BpmRanges == {<<DefaultMinBpm, DefaultMaxBpm>>, <<100, DefaultMaxBpm>>}

\* the options process() builds the pipeline from
RerunArgs ==
    {[NoArgs EXCEPT !.hrdata = d, !.sample_rate = sr,
                    !.hampel_correct = h, !.calc_freq = f,
                    !.freq_method = m, !.breathing_method = m,
                    !.bpmmin = r[1], !.bpmmax = r[2]] :
        d \in RerunSignals, sr \in PipelineRates, h \in BOOLEAN, f \in BOOLEAN,
        m \in MethodChoices, r \in BpmRanges}

\* what scipy's numerics yield for the signal's RR-intervals: the same at
\* every run, the estimators being functions of their input
RerunEnvs ==
    {[powers |-> <<0, 1, 1>>, breathing |-> "ok", rate |-> 1],
     [powers |-> <<1, 0, 0>>, breathing |-> "fail", rate |-> 0]}

\* signal = HeartRateSignal(hrdata, sample_rate); pipeline = builder.build()
InitRerun ==
    /\ entry = "pipeline"
    /\ args \in RerunArgs
    /\ signal = NewSignal(args.hrdata, args.sample_rate)
    /\ detector = NewDetector(args.bpmmin, args.bpmmax)
    /\ processors = ProcessProcessors(args)
    /\ numerics \in RerunEnvs
    /\ returned = None
    /\ phase = "init"
    /\ pc = 1
    /\ result = NewResult
    /\ trace = <<>>
    /\ windows = <<>>
    /\ widx = 1
    /\ whole = NewSignal(<<>>, 1)
    /\ outer = NewResult
    /\ other = NewResult
    /\ calls = 0
    /\ heap = NoHeap
    /\ pending = NoPending
    /\ threads = NoThreads

\* result = pipeline.process(signal); result holds what the run wrote, up to
\* the exception when it raised
CallPipelineProcess ==
    /\ entry = "pipeline"
    /\ calls < MaxRuns
    /\ calls' = calls + 1
    /\ \E run \in {PipelineProcess(processors, detector, signal, numerics)} :
           /\ signal' = run.signal
           /\ detector' = run.det
           /\ result' = run.result
           /\ phase' = IF run.raised THEN "raised" ELSE "done"
    /\ UNCHANGED <<numerics, heap, pending, threads>>
    /\ UNCHANGED <<entry, args, other, returned, processors, pc, trace, windows,
                   widx, whole, outer>>

NextRerun == CallPipelineProcess

SpecRerun == InitRerun /\ [][NextRerun]_vars

\* C15: every run of the pipeline leaves the detector's min_bpm and max_bpm
\* as they were before it (after a widened-range retry and after a run that
\* ended in an exception too), and a run that follows another on the same
\* signal ends the same way with the same beat positions and the same
\* measures.
C15_RerunGivesSameResult ==
    [][(entry = "pipeline" /\ calls' = calls + 1) =>
          /\ detector' = detector
          /\ calls >= 1 =>
                /\ phase' = phase
                /\ signal'.peaks = signal.peaks
                /\ GetWorkingData(result', "peaklist", None)
                     = GetWorkingData(result, "peaklist", None)
                /\ result'.measures = result.measures
      ]_vars

\* the pipeline has run twice, the detector took the widened-range retry and
\* the stages wrote measures from the beats found
C15_Witness ==
    /\ entry = "pipeline"
    /\ calls >= 2
    /\ phase = "done"
    /\ DetectPeaks(detector, signal.data, signal.sample_rate).path = "widened"
    /\ {"bpm", "sd1", "breathingrate"} \subseteq DOMAIN result.measures

\* ------------------------------------------------------------------------
\* Signal objects, their sample arrays and metadata dicts (core/signal.py)
\*
\* heap.arrays are the numpy buffers, heap.dicts the metadata dicts and
\* heap.signals the Signal objects; a Signal refers to its samples by
\* <<array, from, to>>, the part from..to-1 (0-based) of a buffer, and to its
\* metadata by the position of a dict.  A sequence argument is either
\* <<"list", values>> or <<"ndarray", array, from, to>>.
\* ------------------------------------------------------------------------

\* np.asarray(data): a new buffer for a list, the array itself for an ndarray
AsArray(h, data) ==
    IF data[1] = "list"
    THEN [heap |-> [h EXCEPT !.arrays = Append(@, data[2])],
          ref |-> <<Len(h.arrays) + 1, 0, Len(data[2])>>]
    ELSE [heap |-> h, ref |-> <<data[2], data[3], data[4]>>]

\* deepcopy(metadata): a new dict with the same entries
DeepCopy(h, d) ==
    [heap |-> [h EXCEPT !.dicts = Append(@, h.dicts[d])], ref |-> Len(h.dicts) + 1]

\* {} if metadata is None else deepcopy(metadata)
InitMetadata(h, metadata) ==
    IF metadata.isNone
    THEN [heap |-> [h EXCEPT !.dicts = Append(@, EmptyDict)], ref |-> Len(h.dicts) + 1]
    ELSE DeepCopy(h, metadata.val)

\* the Signal object __init__ leaves on the heap
StoreSignal(arr, sample_rate, meta) ==
    [meta.heap EXCEPT !.signals =
        Append(@, [array |-> arr.ref[1], from |-> arr.ref[2], to |-> arr.ref[3],
                   sample_rate |-> sample_rate, metadata |-> meta.ref])]

\* Signal.__init__: ValueError when sample_rate <= 0, and then no object
SignalInit(h, data, sample_rate, metadata) ==
    IF sample_rate <= 0
    THEN [raised |-> TRUE, heap |-> h]
    ELSE [raised |-> FALSE,
          heap |-> StoreSignal(AsArray(h, data), sample_rate,
                               InitMetadata(AsArray(h, data).heap, metadata))]

\* signal.data of the k-th Signal: the samples it sees
DataOf(h, k) ==
    SubSeq(h.arrays[h.signals[k].array], h.signals[k].from + 1, h.signals[k].to)

\* signal.metadata of the k-th Signal
MetadataOf(h, k) == h.dicts[h.signals[k].metadata]

\* get_slice after the range check: the copy of the metadata made for the
\* call, then __init__ on the part start_idx:end_idx of the parent's array
SliceInit(copied, sig, start_idx, end_idx) ==
    SignalInit(copied.heap,
               <<"ndarray", sig.array, sig.from + start_idx,
                 sig.from + Min2(end_idx, sig.to - sig.from)>>,
               sig.sample_rate, Some(copied.ref))

\* signal.get_slice(start_sec, end_sec) of the k-th Signal
GetSlice(h, k, start_sec, end_sec) ==
    IF \/ start_sec < 0
       \/ end_sec * h.signals[k].sample_rate > Len(DataOf(h, k))
       \/ start_sec >= end_sec
    THEN [raised |-> TRUE, heap |-> h]
    ELSE SliceInit(DeepCopy(h, h.signals[k].metadata), h.signals[k],
                   start_sec * h.signals[k].sample_rate,
                   end_sec * h.signals[k].sample_rate)

\* signal.data[i] = value on the k-th Signal
WriteSample(h, k, i, value) ==
    [h EXCEPT !.arrays[h.signals[k].array][h.signals[k].from + i + 1] = value]

\* signal.set_metadata(key, value) on the k-th Signal
SetMetadata(h, k, key, value) ==
    [h EXCEPT !.dicts[h.signals[k].metadata] = Put(@, key, value)]

\* ------------------------------------------------------------------------
\* Specification SpecSlice: a Signal, one slice of it, and writes to the
\* samples and the metadata of either
\* ------------------------------------------------------------------------

\* longest signal sliced, in samples
MaxSamples == 3

\* the metadata entries written
MetadataWrites == {<<"subject", 1>>, <<"subject", 2>>}

\* parent = Signal(data, sample_rate), data a list
InitSlice ==
    /\ entry = "slice"
    /\ args = NoArgs
    /\ \E n \in 2..MaxSamples, sr \in {1, 2} :
           heap = SignalInit(NoHeap, <<"list", [i \in 1..n |-> 0]>>, sr, None).heap
    /\ signal = NewSignal(<<>>, 1)
    /\ detector = NewDetector(DefaultMinBpm, DefaultMaxBpm)
    /\ returned = None
    /\ phase = "init"
    /\ processors = <<>>
    /\ pc = 1
    /\ result = NewResult
    /\ trace = <<>>
    /\ windows = <<>>
    /\ widx = 1
    /\ whole = NewSignal(<<>>, 1)
    /\ outer = NewResult
    /\ other = NewResult
    /\ calls = 0
    /\ numerics = NoEnv
    /\ pending = NoPending
    /\ threads = NoThreads

\* child = parent.get_slice(start_sec, end_sec)
CallGetSlice ==
    /\ entry = "slice"
    /\ Len(heap.signals) = 1
    /\ \E start_sec \in 0..MaxSamples, end_sec \in 0..MaxSamples :
         \E made \in {GetSlice(heap, 1, start_sec, end_sec)} :
             /\ heap' = made.heap
             /\ phase' = IF made.raised THEN "raised" ELSE "get_slice"
    /\ UNCHANGED <<entry, args, signal, detector, returned, processors, pc, result,
                   trace, windows, widx, whole, outer, other, calls, numerics, pending, threads>>

\* parent.data[i] = value (k = 1) or child.data[i] = value (k = 2)
WriteData ==
    /\ entry = "slice"
    /\ \E k \in 1..Len(heap.signals) :
         \E i \in 0..(Len(DataOf(heap, k)) - 1), value \in Amplitudes :
             /\ heap' = WriteSample(heap, k, i, value)
             /\ phase' = IF k = 1 THEN "parent_data" ELSE "child_data"
    /\ UNCHANGED <<entry, args, signal, detector, returned, processors, pc, result,
                   trace, windows, widx, whole, outer, other, calls, numerics, pending, threads>>

\* parent.set_metadata(key, value) (k = 1) or child.set_metadata(key, value)
CallSetMetadata ==
    /\ entry = "slice"
    /\ \E k \in 1..Len(heap.signals), w \in MetadataWrites :
           /\ heap' = SetMetadata(heap, k, w[1], w[2])
           /\ phase' = IF k = 1 THEN "parent_metadata" ELSE "child_metadata"
    /\ UNCHANGED <<entry, args, signal, detector, returned, processors, pc, result,
                   trace, windows, widx, whole, outer, other, calls, numerics, pending, threads>>

NextSlice == CallGetSlice \/ WriteData \/ CallSetMetadata

SpecSlice == InitSlice /\ [][NextSlice]_vars

\* C16: once a Signal has been sliced, a write to the slice's samples or
\* metadata leaves the parent's samples and metadata as they were, and a
\* write to the parent's leaves the slice's as they were.
C16_SliceSharesNothing ==
    [][(entry = "slice" /\ Len(heap.signals) = 2) =>
          /\ phase' \in {"child_data", "child_metadata"} =>
                /\ DataOf(heap', 1) = DataOf(heap, 1)
                /\ MetadataOf(heap', 1) = MetadataOf(heap, 1)
          /\ phase' \in {"parent_data", "parent_metadata"} =>
                /\ DataOf(heap', 2) = DataOf(heap, 2)
                /\ MetadataOf(heap', 2) = MetadataOf(heap, 2)
      ]_vars

\* ------------------------------------------------------------------------
\* Specification SpecConstruct: the constructors of Signal and
\* SegmentedPipeline on valid and invalid configurations
\* ------------------------------------------------------------------------

\* SegmentedPipeline.__init__ with segment_overlap = 1 accepted:
\* 0 <= segment_overlap <= 1
SegmentedPipelineInitAcceptingOne(procs, segment_width, segment_overlap, segment_min_size) ==
    IF ~(0 <= segment_overlap[1] /\ segment_overlap[1] <= segment_overlap[2])
    THEN [raised |-> TRUE, pipeline |-> None]
    ELSE [raised |-> FALSE,
          pipeline |-> Some([processors |-> procs,
                             segment_width |-> segment_width,
                             segment_overlap |-> segment_overlap,
                             segment_min_size |-> segment_min_size])]

\* SegmentedPipeline.__init__: ValueError unless 0 <= segment_overlap < 1,
\* segment_overlap the fraction segment_overlap[1] / segment_overlap[2]
SegmentedPipelineInit(procs, segment_width, segment_overlap, segment_min_size) ==
    IF ~(0 <= segment_overlap[1] /\ segment_overlap[1] < segment_overlap[2])
    THEN [raised |-> TRUE, pipeline |-> None]
    ELSE [raised |-> FALSE,
          pipeline |-> Some([processors |-> procs,
                             segment_width |-> segment_width,
                             segment_overlap |-> segment_overlap,
                             segment_min_size |-> segment_min_size])]

\* sample rates a Signal is constructed with, valid and not
ConstructRates == {-2, -1, 0, 1, 2, 4}

\* overlap fractions a SegmentedPipeline is constructed with: -1/2, 0, 1/2,
\* 9/10, 1 and 3/2
ConstructOverlaps == {<<-1, 2>>, <<0, 1>>, <<1, 2>>, <<9, 10>>, <<1, 1>>, <<3, 2>>}

\* Signal(data, sample_rate)
SignalArgs ==
    {[NoArgs EXCEPT !.hrdata = d, !.sample_rate = sr] :
        d \in Signals(2), sr \in ConstructRates}

\* SegmentedPipeline(processors, segment_width, segment_overlap, segment_min_size)
SegmentedArgs ==
    {[NoArgs EXCEPT !.calc_freq = f, !.segment_width = w,
                    !.segment_overlap = o, !.segment_min_size = m] :
        f \in BOOLEAN, w \in {1, 2}, o \in ConstructOverlaps, m \in {1, 2}}

InitConstruct ==
    /\ \/ entry = "Signal" /\ args \in SignalArgs
       \/ entry = "SegmentedPipeline" /\ args \in SegmentedArgs
    /\ signal = NewSignal(<<>>, 1)
    /\ detector = NewDetector(DefaultMinBpm, DefaultMaxBpm)
    /\ returned = None
    /\ phase = "init"
    /\ NoPipeline

\* Signal(data, sample_rate)
ConstructSignal ==
    /\ entry = "Signal"
    /\ phase = "init"
    /\ \E made \in {SignalInit(heap, <<"list", args.hrdata>>, args.sample_rate, None)} :
           /\ heap' = made.heap
           /\ phase' = IF made.raised THEN "raised" ELSE "done"
    /\ UNCHANGED <<entry, args, signal, detector, returned, processors, pc, result,
                   trace, windows, widx, whole, outer, other, calls, numerics, pending, threads>>

\* SegmentedPipeline(processors, segment_width, segment_overlap, segment_min_size)
ConstructSegmentedPipeline ==
    /\ entry = "SegmentedPipeline"
    /\ phase = "init"
    /\ \E made \in {SegmentedPipelineInit(SegmentwiseProcessors(args), args.segment_width,
                                          args.segment_overlap, args.segment_min_size)} :
           /\ returned' = made.pipeline
           /\ phase' = IF made.raised THEN "raised" ELSE "done"
    /\ UNCHANGED <<entry, args, signal, detector, heap, processors, pc, result,
                   trace, windows, widx, whole, outer, other, calls, numerics, pending, threads>>

NextConstruct == ConstructSignal \/ ConstructSegmentedPipeline

SpecConstruct == InitConstruct /\ [][NextConstruct]_vars

\* C17: constructing a Signal with sample_rate <= 0 ends in a (Value)error
\* and leaves no Signal object, and constructing a SegmentedPipeline with
\* segment_overlap outside [0, 1) ends in a (Value)error and yields no
\* pipeline.
C17_InvalidConfigurationRejected ==
    /\ (entry = "Signal" /\ phase # "init" /\ args.sample_rate <= 0) =>
          /\ phase = "raised"
          /\ heap.signals = <<>>
    /\ (entry = "SegmentedPipeline" /\ phase # "init"
          /\ (args.segment_overlap[1] < 0
                \/ args.segment_overlap[1] >= args.segment_overlap[2])) =>
          /\ phase = "raised"
          /\ returned.isNone

\* the constructor of SegmentedPipeline was called with segment_overlap = 1
C17_Witness ==
    /\ entry = "SegmentedPipeline"
    /\ phase # "init"
    /\ args.segment_overlap[1] = args.segment_overlap[2]

\* ------------------------------------------------------------------------
\* Specification SpecPeakStage: AdaptiveThresholdPeakDetector.process on
\* pulse trains at several sample rates, with a fresh result
\* ------------------------------------------------------------------------

\* most gaps between pulses in a signal the peak stage is applied to
MaxStageGaps == 3

\* the sample rates (Hz) of those signals: RR-intervals are multiples of
\* 250, 200 and 100 ms
StageRates == {4, 5, 10}

\* the signals the peak stage is applied to
StageSignals ==
    {PulseTrain(g) : g \in UNION {[1..n -> GapChoices] : n \in 0..MaxStageGaps}}

\* signal = HeartRateSignal(data, sample_rate); detector with its defaults
InitPeakStage ==
    /\ entry = "peak_stage"
    /\ args = NoArgs
    /\ \E data \in StageSignals, sr \in StageRates : signal = NewSignal(data, sr)
    /\ detector = NewDetector(DefaultMinBpm, DefaultMaxBpm)
    /\ returned = None
    /\ phase = "init"
    /\ NoPipeline

\* result = detector.process(signal)
CallDetectorProcess ==
    /\ entry = "peak_stage"
    /\ phase = "init"
    /\ \E out \in {AdaptiveProcess(detector, signal, NewResult)} :
           /\ signal' = out.signal
           /\ result' = out.result
           /\ detector' = out.det
    /\ phase' = "done"
    /\ UNCHANGED <<numerics, heap, pending, threads>>
    /\ UNCHANGED <<calls, entry, args, other, returned, processors, pc, trace,
                   windows, widx, whole, outer>>

NextPeakStage == CallDetectorProcess

SpecPeakStage == InitPeakStage /\ [][NextPeakStage]_vars

\* C21: the artifact correction rejects raw RR-interval i (its beat i + 1 is
\* 0 in binary_peaklist) if and only if the interval lies outside the closed
\* interval [mean_RR - band, mean_RR + band], band = max(300, 0.3 * mean_RR)
\* and mean_RR the mean of the raw intervals; an interval equal to either
\* bound is accepted.  (Compared after multiplying through by 10 * len.)
C21_RejectedIffOutsideClosedBand ==
    (entry = "peak_stage" /\ "binary_peaklist" \in DOMAIN result.working_data) =>
        LET rr == result.working_data["RR_list"]
            beats == result.working_data["binary_peaklist"]
            n == Len(rr)
            total == Sum(rr)
            band == Max2(3000 * n, 3 * total)
        IN  \A i \in 1..n :
                (beats[i + 1] = 0) <=>
                    \/ 10 * n * rr[i] < 10 * total - band
                    \/ 10 * n * rr[i] > 10 * total + band

\* ------------------------------------------------------------------------
\* Specification SpecOrder: after the peak stage, the four measure stages
\* applied to one signal and one result in any order, their writes to the
\* result interleaved
\* ------------------------------------------------------------------------

\* the measure keys a stage writes, in the order it writes them
StageKeys(kind) ==
    IF kind = "time"
    THEN <<"bpm", "ibi", "sdnn", "sdsd", "rmssd", "pnn20", "pnn50", "hr_mad">>
    ELSE IF kind = "frequency"
    THEN <<"vlf", "lf", "hf", "p_total", "lf/hf", "vlf_perc", "lf_perc", "hf_perc",
           "lf_nu", "hf_nu">>
    ELSE IF kind = "nonlinear"
    THEN <<"sd1", "sd2", "s", "sd1/sd2">>
    ELSE <<"breathingrate">>

\* the working-data keys a stage writes, in the order it writes them
StageDataKeys(kind) ==
    IF kind = "breathing"
    THEN <<"breathing_signal", "breathing_psd", "breathing_frq">>
    ELSE <<>>

RECURSIVE WritesOf(_, _, _, _)
\* the writes <<tag, key, value>> of the keys, from position i on, that the
\* dict holds
WritesOf(tag, keys, dict, i) ==
    IF i > Len(keys) THEN <<>>
    ELSE (IF keys[i] \in DOMAIN dict THEN <<<<tag, keys[i], dict[keys[i]]>>>> ELSE <<>>)
         \o WritesOf(tag, keys, dict, i + 1)

\* processor.process(signal, result) of a measure stage up to its first
\* write: the RR input is read and the values are computed (out is what the
\* stage makes of the result it was handed); the set_measure and
\* set_working_data calls are still to come
StageBegin(processor, out) ==
    [signal |-> out.signal,
     raised |-> out.raised,
     writes |-> IF out.raised THEN <<>>
                ELSE WritesOf("measure", StageKeys(processor.kind),
                              out.result.measures, 1)
                     \o WritesOf("working_data", StageDataKeys(processor.kind),
                                 out.result.working_data, 1)]

\* one set_measure or set_working_data call of a stage
ApplyWrite(res, w) ==
    IF w[1] = "measure"
    THEN SetMeasure(res, w[2], w[3])
    ELSE SetWorkingData(res, w[2], w[3])

\* the four measure stages
MeasureStages(a) ==
    WithTimeDomainAnalyzer
    \o WithNonlinearAnalyzer
    \o WithFrequencyDomainAnalyzer(a.freq_method)
    \o WithBreathingAnalyzer(a.breathing_method)

\* the signals the stages are applied to: no beat, three RR-intervals and
\* more than three
OrderSignals == {<<0>>, PulseTrain(<<3, 3, 3, 3>>), ResultSignal}

OrderArgs ==
    {[NoArgs EXCEPT !.hrdata = d, !.sample_rate = sr,
                    !.freq_method = m, !.breathing_method = m] :
        d \in OrderSignals, sr \in PipelineRates, m \in MethodChoices}

\* signal = HeartRateSignal(hrdata, sample_rate) and the stages, none begun
InitOrder ==
    /\ entry = "stages"
    /\ args \in OrderArgs
    /\ signal = NewSignal(args.hrdata, args.sample_rate)
    /\ detector = NewDetector(args.bpmmin, args.bpmmax)
    /\ processors = MeasureStages(args)
    /\ numerics \in RerunEnvs
    /\ pending = [i \in 1..4 |-> [begun |-> FALSE, writes |-> <<>>]]
    /\ returned = None
    /\ phase = "init"
    /\ pc = 1
    /\ result = NewResult
    /\ trace = <<>>
    /\ windows = <<>>
    /\ widx = 1
    /\ whole = NewSignal(<<>>, 1)
    /\ outer = NewResult
    /\ other = NewResult
    /\ calls = 0
    /\ heap = NoHeap
    /\ threads = NoThreads

\* the start of ProcessingPipeline.process and the peak stage
RunPeakStage ==
    /\ entry = "stages"
    /\ phase = "init"
    /\ \E out \in {AdaptiveProcess(detector, signal, PipelinePrelude(signal, NewResult))} :
           /\ signal' = out.signal
           /\ result' = out.result
           /\ detector' = out.det
    /\ trace' = <<"peak">>
    /\ phase' = "run"
    /\ UNCHANGED <<entry, args, returned, processors, pc, windows, widx, whole, outer,
                   other, calls, numerics, heap, pending, threads>>

\* a stage that has not begun reads its RR input from the result as it is
\* now and computes its values
BeginStage ==
    /\ entry = "stages"
    /\ phase = "run"
    /\ \E i \in 1..Len(processors) :
           /\ ~pending[i].begun
           /\ \E begin \in {StageBegin(processors[i],
                                StageProcess(processors[i], detector, signal, result,
                                             numerics).out)} :
                  /\ signal' = begin.signal
                  /\ pending' = [pending EXCEPT ![i] = [begun |-> TRUE,
                                                        writes |-> begin.writes]]
                  /\ phase' = IF begin.raised THEN "raised" ELSE "run"
           /\ trace' = Append(trace, processors[i].kind)
    /\ UNCHANGED <<entry, args, detector, returned, processors, pc, result, windows,
                   widx, whole, outer, other, calls, numerics, heap, threads>>

\* a stage that has begun makes its next write to the result
WriteStage ==
    /\ entry = "stages"
    /\ phase = "run"
    /\ \E i \in 1..Len(processors) :
           /\ pending[i].begun
           /\ Len(pending[i].writes) > 0
           /\ result' = ApplyWrite(result, Head(pending[i].writes))
           /\ pending' = [pending EXCEPT ![i].writes = Tail(@)]
    /\ UNCHANGED <<entry, args, signal, detector, returned, phase, processors, pc,
                   trace, windows, widx, whole, outer, other, calls, numerics, heap,
                   threads>>

NextOrder == RunPeakStage \/ BeginStage \/ WriteStage

SpecOrder == InitOrder /\ [][NextOrder]_vars

\* C24: the time-domain, frequency-domain, nonlinear and breathing stages
\* write pairwise disjoint measure keys and read the RR data only, so in
\* whatever order they are applied after the peak stage, and however their
\* writes are interleaved, they end the same way as in the pipeline's own
\* order (a stage raises in one order only if it raises there) and, when all
\* have finished, the measures map is the one the pipeline's order gives.
C24_StageOrderIsImmaterial ==
    (entry = "stages" /\ phase # "init") =>
        LET inorder == PipelineProcess(WithPeakDetector \o processors,
                                       NewDetector(args.bpmmin, args.bpmmax),
                                       NewSignal(args.hrdata, args.sample_rate),
                                       numerics)
            Keys(i) == {StageKeys(processors[i].kind)[a] :
                           a \in 1..Len(StageKeys(processors[i].kind))}
        IN  /\ phase = "raised" => inorder.raised
            /\ (\A i \in 1..4 : pending[i].begun /\ pending[i].writes = <<>>) =>
                   /\ \A i \in 1..4 : \A j \in 1..4 : i # j => Keys(i) \cap Keys(j) = {}
                   /\ phase = "raised" <=> inorder.raised
                   /\ phase = "run" => result.measures = inorder.result.measures

\* the breathing stage began first and the time-domain stage last, and all
\* four have written their measures
C24_Witness ==
    /\ entry = "stages"
    /\ phase = "run"
    /\ Len(trace) = 5
    /\ trace[2] = "breathing"
    /\ trace[5] = "time"
    /\ \A i \in 1..4 : pending[i].begun /\ pending[i].writes = <<>>
    /\ {"bpm", "sd1", "lf", "breathingrate"} \subseteq DOMAIN result.measures
    /\ ~IsNaN(result.measures["breathingrate"])

\* ------------------------------------------------------------------------
\* Specification SpecConcurrent: pipeline.process invoked by two threads on
\* two windows, the pipeline (and so its peak detector) shared.  A thread's
\* steps are the first pass of _fit_peaks, the widening of the detector's
\* range, the second pass, the restoring of the range, and the rest of the
\* run, which works on the thread's own signal and result.
\* ------------------------------------------------------------------------

\* the two invocations
Threads == {1, 2}

\* the sample rate (Hz) of the windows
WindowRate == 10

\* the windows the pipeline is invoked on
ConcurrentWindows ==
    {<<0, 0, 1, 1, 0, 1>>, <<0, 0, 1, 1, 0, 2>>, <<0, 1, 0, 0, 0, 1, 0, 0>>}

\* a thread before its call of pipeline.process(HeartRateSignal(data, rate))
NewThread(data) ==
    [pc |-> "first", signal |-> NewSignal(data, WindowRate), best |-> NoBest,
     orig |-> NewDetector(DefaultMinBpm, DefaultMaxBpm), result |-> NewResult]

\* the run of a thread from the return of _fit_peaks on: the rest of the peak
\* stage, then the stages after it
RestOfRun(procs, det, th, env) ==
    PipelineLoop(procs, 2, env,
        AfterDetector(
            AdaptiveCorrect(
                PeakDetectorStore(th.signal, PipelinePrelude(th.signal, NewResult),
                                  [best_ma |-> th.best.ma.val,
                                   best_peaks |-> th.best.peaks,
                                   path |-> "concurrent",
                                   det |-> det]))))

\* pipeline = builder.build(), shared by the two threads
InitConcurrent ==
    /\ entry = "threads"
    /\ args = NoArgs
    /\ detector = NewDetector(DefaultMinBpm, DefaultMaxBpm)
    /\ processors = ProcessProcessors(args)
    /\ \E w1 \in ConcurrentWindows, w2 \in ConcurrentWindows :
           /\ w1 # w2
           /\ threads = [t \in Threads |-> NewThread(IF t = 1 THEN w1 ELSE w2)]
    /\ numerics = NoEnv
    /\ signal = NewSignal(<<>>, 1)
    /\ returned = None
    /\ phase = "init"
    /\ pc = 1
    /\ result = NewResult
    /\ trace = <<>>
    /\ windows = <<>>
    /\ widx = 1
    /\ whole = NewSignal(<<>>, 1)
    /\ outer = NewResult
    /\ other = NewResult
    /\ calls = 0
    /\ heap = NoHeap
    /\ pending = NoPending

\* the first loop over ma_perc_list, reading self.min_bpm and self.max_bpm
ThreadFirstPass ==
    /\ entry = "threads"
    /\ \E t \in Threads :
           /\ threads[t].pc = "first"
           /\ \E best \in {FitLoop(detector, threads[t].signal.data,
                                   CalculateRollingMean(threads[t].signal.data,
                                                        threads[t].signal.sample_rate),
                                   threads[t].signal.sample_rate, 1, NoBest)} :
                  threads' = [threads EXCEPT
                                 ![t].best = best,
                                 ![t].pc = IF best.ma.isNone THEN "widen" ELSE "rest"]
    /\ phase' = "run"
    /\ UNCHANGED <<entry, args, signal, detector, returned, processors, pc, result,
                   trace, windows, widx, whole, outer, other, calls, numerics, heap,
                   pending>>

\* min_bpm_orig = self.min_bpm; max_bpm_orig = self.max_bpm;
\* self.min_bpm = 30; self.max_bpm = 200
ThreadWiden ==
    /\ entry = "threads"
    /\ \E t \in Threads :
           /\ threads[t].pc = "widen"
           /\ threads' = [threads EXCEPT ![t].orig = detector, ![t].pc = "second"]
    /\ detector' = Widen(detector)
    /\ UNCHANGED <<entry, args, signal, returned, phase, processors, pc, result,
                   trace, windows, widx, whole, outer, other, calls, numerics, heap,
                   pending>>

\* the second loop over ma_perc_list and the default percentage after it
ThreadSecondPass ==
    /\ entry = "threads"
    /\ \E t \in Threads :
           /\ threads[t].pc = "second"
           /\ \E best \in {FitSecondPass(detector, threads[t].signal.data,
                                         CalculateRollingMean(threads[t].signal.data,
                                                              threads[t].signal.sample_rate),
                                         threads[t].signal.sample_rate,
                                         threads[t].best)} :
                  threads' = [threads EXCEPT ![t].best = best, ![t].pc = "restore"]
    /\ UNCHANGED <<entry, args, signal, detector, returned, phase, processors, pc,
                   result, trace, windows, widx, whole, outer, other, calls, numerics,
                   heap, pending>>

\* finally: self.min_bpm = min_bpm_orig; self.max_bpm = max_bpm_orig
ThreadRestore ==
    /\ entry = "threads"
    /\ \E t \in Threads :
           /\ threads[t].pc = "restore"
           /\ detector' = threads[t].orig
           /\ threads' = [threads EXCEPT ![t].pc = "rest"]
    /\ UNCHANGED <<entry, args, signal, returned, phase, processors, pc, result,
                   trace, windows, widx, whole, outer, other, calls, numerics, heap,
                   pending>>

\* the final check of _fit_peaks and the rest of the thread's run
ThreadRest ==
    /\ entry = "threads"
    /\ \E t \in Threads :
           /\ threads[t].pc = "rest"
           /\ \E run \in {RestOfRun(processors, detector,
                                    [threads[t] EXCEPT !.best =
                                        FitFinal(threads[t].signal.data,
                                                 CalculateRollingMean(
                                                     threads[t].signal.data,
                                                     threads[t].signal.sample_rate),
                                                 threads[t].best)],
                                    numerics)} :
                  threads' = [threads EXCEPT ![t].signal = run.signal,
                                             ![t].result = run.result,
                                             ![t].pc = "done"]
    /\ UNCHANGED <<entry, args, signal, detector, returned, phase, processors, pc,
                   result, trace, windows, widx, whole, outer, other, calls, numerics,
                   heap, pending>>

NextConcurrent ==
    \/ ThreadFirstPass
    \/ ThreadWiden
    \/ ThreadSecondPass
    \/ ThreadRestore
    \/ ThreadRest

SpecConcurrent == InitConcurrent /\ [][NextConcurrent]_vars

\* C25: when one pipeline (one detector) is invoked concurrently on two
\* different windows, then in every interleaving each invocation that has
\* returned has the beat positions and the measures it produces when it is
\* run alone on its window.
C25_ConcurrentRunsAsAlone ==
    entry = "threads" =>
        \A t \in Threads :
            threads[t].pc = "done" =>
                LET alone == PipelineProcess(processors,
                                 NewDetector(DefaultMinBpm, DefaultMaxBpm),
                                 NewSignal(threads[t].signal.data,
                                           threads[t].signal.sample_rate),
                                 numerics)
                IN  /\ threads[t].signal.peaks = alone.signal.peaks
                    /\ threads[t].result.measures = alone.result.measures

\* ------------------------------------------------------------------------
\* Specification SpecWindows: SegmentedPipeline.make_windows on signals of
\* every small length, for the widths, overlaps and minimum sizes the
\* constructor accepts
\* ------------------------------------------------------------------------

\* most samples in a signal make_windows is called with
MaxWindowLen == 13

\* the sample rates (Hz), segment widths (s) and minimum sizes (s) of those
\* calls, and the overlaps as fractions
WindowRates == {1, 2, 4}

WindowWidths == {1, 2, 3}

WindowMinSizes == {0, 1, 2, 4}

WindowOverlaps == {<<0, 1>>, <<1, 4>>, <<1, 2>>, <<3, 4>>, <<9, 10>>}

\* SegmentedPipeline.__init__: raises unless 0 <= segment_overlap < 1
SegmentedPipelineAccepts(a) ==
    /\ 0 <= a.segment_overlap[1]
    /\ a.segment_overlap[1] < a.segment_overlap[2]

\* pipeline = SegmentedPipeline(segment_width, segment_overlap,
\* segment_min_size); signal = HeartRateSignal(data, sample_rate)
InitWindows ==
    /\ entry = "make_windows"
    /\ \E sr \in WindowRates, w \in WindowWidths, o \in WindowOverlaps,
          m \in WindowMinSizes :
           args = [NoArgs EXCEPT !.sample_rate = sr, !.segment_width = w,
                                 !.segment_overlap = o, !.segment_min_size = m]
    /\ SegmentedPipelineAccepts(args)
    /\ \E n \in 1..MaxWindowLen : signal = NewSignal([i \in 1..n |-> 0], args.sample_rate)
    /\ detector = NewDetector(DefaultMinBpm, DefaultMaxBpm)
    /\ returned = None
    /\ phase = "init"
    /\ NoPipeline

\* windows = pipeline.make_windows(signal)
CallMakeWindows ==
    /\ entry = "make_windows"
    /\ phase = "init"
    /\ \E made \in {MakeWindows(Len(signal.data), signal.sample_rate, args.segment_width,
                                args.segment_overlap, args.segment_min_size)} :
           /\ windows' = made.slices
           /\ phase' = IF made.hangs THEN "hung" ELSE "done"
    /\ UNCHANGED <<numerics, heap, pending, threads>>
    /\ UNCHANGED <<calls, entry, args, other, signal, detector, returned, processors,
                   pc, result, trace, widx, whole, outer>>

NextWindows == CallMakeWindows

SpecWindows == InitWindows /\ [][NextWindows]_vars

\* C28: make_windows terminates for every non-empty signal and every
\* configuration the constructor accepts (overlap in [0, 1), positive width
\* and sample rate): the call never stays in its loop for ever.
C28_MakeWindowsTerminates ==
    entry = "make_windows" => phase # "hung"

\* C29: the windows make_windows returns for a signal of N samples satisfy
\* 0 <= start < end <= N with strictly increasing starts; every window but
\* the final tail has length exactly W = int(segment_width * sample_rate);
\* the tail (the window ending at N) is no longer than W and is included
\* exactly when the data left after the last full window's step has at
\* least int(segment_min_size * sample_rate) samples; with overlap 0 the
\* windows are contiguous and disjoint.
C29_WindowsAreWellFormed ==
    (entry = "make_windows" /\ phase = "done") =>
        LET N == Len(signal.data)
            W == args.segment_width * args.sample_rate
            min_size == args.segment_min_size * args.sample_rate
            o == args.segment_overlap
            step == ((o[2] - o[1]) * W) \div o[2]
            n == Len(windows)
            full == Cardinality({i \in 1..n : windows[i][2] < N})
            left == N - (IF full = 0 THEN 0 ELSE windows[full][1] + step)
        IN  /\ \A i \in 1..n : 0 <= windows[i][1] /\ windows[i][1] < windows[i][2]
                               /\ windows[i][2] <= N
            /\ \A i \in 1..n : \A j \in (i + 1)..n : windows[i][1] < windows[j][1]
            /\ \A i \in 1..n : (i < n \/ windows[i][2] < N)
                                  => windows[i][2] - windows[i][1] = W
            /\ \A i \in 1..n : windows[i][2] - windows[i][1] <= W
            /\ (n > 0 /\ windows[n][2] = N) <=> (left >= min_size)
            /\ o[1] = 0 =>
                   /\ n > 0 => windows[1][1] = 0
                   /\ \A i \in 1..(n - 1) : windows[i][2] = windows[i + 1][1]

\* a call that returned three windows or more with overlap, the last a tail
\* shorter than W
C29_Witness ==
    /\ entry = "make_windows"
    /\ phase = "done"
    /\ args.segment_overlap[1] > 0
    /\ Len(windows) >= 3
    /\ windows[Len(windows)][2] = Len(signal.data)
    /\ windows[Len(windows)][2] - windows[Len(windows)][1]
           < args.segment_width * args.sample_rate

\* ------------------------------------------------------------------------
\* Specification SpecReuse: process() called with measures= and
\* working_data= dictionaries, and the pipeline it builds called again with
\* the result of the previous run
\* ------------------------------------------------------------------------

\* most runs that write into one result
MaxReuse == 2

\* most gaps between pulses in a signal of those runs
MaxReuseGaps == 2

\* the signals of those runs: no pulse, one pulse, and pulse trains
ReuseSignals ==
    {PulseTrain(g) : g \in UNION {[1..n -> GapChoices] : n \in 0..MaxReuseGaps}}
    \cup {<<0>>, ResultSignal}

\* the dictionaries a caller hands to process(): none, or the corrected
\* RR-intervals and the heart rate of an earlier analysis
SeedDicts ==
    {[measures |-> EmptyDict, working_data |-> EmptyDict],
     [measures |-> Put(EmptyDict, "bpm", Rat(70, 1)),
      working_data |-> Put(EmptyDict, "RR_list_cor", <<800, 900, 850>>)]}

\* process(): result = AnalysisResult(), then set_measure for every item of
\* measures and set_working_data for every item of working_data
SeedResult(measures, working_data) ==
    [NewResult EXCEPT !.measures = Update(EmptyDict, measures),
                      !.working_data = Update(EmptyDict, working_data)]

\* ProcessingPipeline.process(signal, result) with a result given
PipelineProcessInto(procs, det, sig, res, env) ==
    PipelineLoop(procs, 1, env,
                 [det |-> det, signal |-> sig,
                  result |-> PipelinePrelude(sig, res), raised |-> FALSE])

\* the measure keys the stages of the pipeline write
StageMeasureKeys ==
    UNION {{StageKeys(k)[i] : i \in 1..Len(StageKeys(k))} :
              k \in {"time", "frequency", "nonlinear", "breathing"}}

\* the caller holds the dictionaries (other); nothing has run
InitReuse ==
    /\ entry = "reuse"
    /\ args \in {[NoArgs EXCEPT !.sample_rate = sr] : sr \in PipelineRates}
    /\ signal = NewSignal(<<>>, 1)
    /\ detector = NewDetector(DefaultMinBpm, DefaultMaxBpm)
    /\ processors = ProcessProcessors(args)
    /\ numerics \in RerunEnvs
    /\ returned = None
    /\ phase = "init"
    /\ pc = 1
    /\ result = NewResult
    /\ trace = <<>>
    /\ windows = <<>>
    /\ widx = 1
    /\ whole = NewSignal(<<>>, 1)
    /\ outer = NewResult
    /\ \E seed \in SeedDicts : other = SeedResult(seed.measures, seed.working_data)
    /\ calls = 0
    /\ heap = NoHeap
    /\ pending = NoPending
    /\ threads = NoThreads

\* process(hrdata, sample_rate, measures=..., working_data=...): the result
\* seeded from the dictionaries, then pipeline.process(signal, result)
CallProcessSeeded ==
    /\ entry = "reuse"
    /\ phase = "init"
    /\ \E d \in ReuseSignals :
         \E run \in {PipelineProcessInto(processors, detector,
                                         NewSignal(d, args.sample_rate),
                                         SeedResult(other.measures, other.working_data),
                                         numerics)} :
             /\ signal' = run.signal
             /\ detector' = run.det
             /\ result' = run.result
             /\ whole' = NewSignal(d, args.sample_rate)
             /\ phase' = IF run.raised THEN "raised" ELSE "done"
    /\ calls' = calls + 1
    /\ UNCHANGED <<heap, pending, threads>>
    /\ UNCHANGED <<numerics, entry, args, other, returned, processors, pc, trace,
                   windows, widx, outer>>

\* pipeline.process(HeartRateSignal(hrdata, sample_rate), result) with the
\* result the previous run returned
CallPipelineProcessAgain ==
    /\ entry = "reuse"
    /\ phase = "done"
    /\ calls < MaxReuse
    /\ \E d \in ReuseSignals :
         \E run \in {PipelineProcessInto(processors, detector,
                                         NewSignal(d, args.sample_rate), result,
                                         numerics)} :
             /\ signal' = run.signal
             /\ detector' = run.det
             /\ result' = run.result
             /\ whole' = NewSignal(d, args.sample_rate)
             /\ phase' = IF run.raised THEN "raised" ELSE "done"
    /\ calls' = calls + 1
    /\ UNCHANGED <<heap, pending, threads>>
    /\ UNCHANGED <<numerics, entry, args, other, returned, processors, pc, trace,
                   windows, widx, outer>>

NextReuse ==
    \/ CallProcessSeeded
    \/ CallPipelineProcessAgain

SpecReuse == InitReuse /\ [][NextReuse]_vars

\* C30: when a result is pre-seeded through process(measures=,
\* working_data=) or reused by a further run, then after each run that
\* returns its binary_peaklist, its RR_list_cor and the measures of the
\* stages are those the beats of that same run give (what the run leaves in
\* a fresh result): nothing is left over or computed from corrected
\* RR-intervals of before the run, also when the run detects fewer than two
\* beats.
C30_ResultDerivesFromThisRun ==
    (entry = "reuse" /\ phase = "done") =>
        LET fresh == PipelineProcess(processors, detector, whole, numerics).result
        IN  /\ \A k \in {"binary_peaklist", "RR_list_cor"} :
                   /\ k \in DOMAIN result.working_data <=> k \in DOMAIN fresh.working_data
                   /\ k \in DOMAIN fresh.working_data
                          => result.working_data[k] = fresh.working_data[k]
            /\ \A k \in StageMeasureKeys :
                   /\ k \in DOMAIN result.measures <=> k \in DOMAIN fresh.measures
                   /\ k \in DOMAIN fresh.measures
                          => result.measures[k] = fresh.measures[k]

====
